---------------------------- MODULE Spec2Model ----------------------------
(***************************************************************************)
(* A model of the Intrear AST interpreter (src/src/interpreter.ts).        *)
(*                                                                         *)
(* The execution pass is modelled as the recursive operator execute over   *)
(* node records, threading a store that holds the heap of                  *)
(* ExecutionContext frames, the closures made by toFunction (with their    *)
(* memoize caches), the arrays and the console.  The driver                *)
(* (Interpreter.execute) is the state machine: it creates the root         *)
(* context and runs the top-level nodes one after the other.               *)
(*                                                                         *)
(* Runtime values are records [t, n, s]: t is the kind of value, n its     *)
(* number / reference, s its text.  Modelled: numbers (integers and NaN),  *)
(* strings, booleans, null, undefined, callables (closures and built-ins), *)
(* arrays (by reference) and Error objects.  Not modelled: objects,        *)
(* bigint, symbols, fractions; a value the model does not track is the     *)
(* opaque value Host.                                                      *)
(***************************************************************************)
EXTENDS Integers, Sequences, FiniteSets, TLC

VARIABLES
  scenario,   \* the input the program under execution was built from
  pc,         \* index of the next top-level node of Interpreter.execute
  st,         \* the store: frames, closures, arrays, console
  status,     \* "constructed" | "running" | "returned" | "threw"
  thrown,     \* what surfaced to the caller when status = "threw"
  inference,  \* the inferType pass over the nodes: [env, pc, status, type, msg]
  verdict     \* what the calls of compareTypes on a pair of types returned

vars == <<scenario, pc, st, status, thrown, inference, verdict>>

---------------------------------------------------------------------------
(* Bounds of the model *)

\* A loop that has run this many iterations is cut off (result kind "hang").
MaxIter == 5
\* Nesting depth of the constructs wrapped around a statement.
MaxDepth == 2
\* Largest number of iterations a scenario's loop is built to run.
MaxCount == 3
\* Nesting depth of the function, array and object types compared.
MaxTypeDepth == 1

---------------------------------------------------------------------------
(* Runtime values *)

Num(i) == [t |-> "number", n |-> i, s |-> ""]
NaNValue == [t |-> "number", n |-> 0, s |-> "NaN"]
Str(x) == [t |-> "string", n |-> 0, s |-> x]
Bool(b) == [t |-> "boolean", n |-> IF b THEN 1 ELSE 0, s |-> ""]
Null == [t |-> "null", n |-> 0, s |-> ""]
Undefined == [t |-> "undefined", n |-> 0, s |-> ""]
\* A closure made by toFunction: a reference into st.closures.
Closure(id) == [t |-> "function", n |-> id, s |-> ""]
\* A built-in callable; each context injects function objects of its own.
BuiltIn(name, frame) == [t |-> "function", n |-> 0 - frame, s |-> name]
ArrayRef(id) == [t |-> "array", n |-> id, s |-> ""]
ErrorObject(msg) == [t |-> "error", n |-> 0, s |-> msg]
Host == [t |-> "host", n |-> 0, s |-> ""]

IsNaN(v) == v.t = "number" /\ v.s = "NaN"
IsCallable(v) == v.t = "function"
IsBuiltIn(v) == v.t = "function" /\ v.n < 0
IsArray(v) == v.t = "array"

\* JavaScript's typeof.
TypeOf(v) ==
  CASE v.t \in {"number", "string", "boolean", "undefined", "function"} -> v.t
    [] v.t \in {"null", "array", "error"} -> "object"
    [] OTHER -> "host"

\* JavaScript's Boolean(v).
Truthy(v) ==
  CASE v.t = "boolean" -> v.n = 1
    [] v.t = "number" -> ~IsNaN(v) /\ v.n # 0
    [] v.t = "string" -> v.s # ""
    [] v.t \in {"null", "undefined"} -> FALSE
    [] OTHER -> TRUE

\* JavaScript's === on the modelled values.
StrictEquals(a, b) ==
  /\ a.t = b.t
  /\ ~IsNaN(a) /\ ~IsNaN(b)
  /\ a.n = b.n
  /\ a.s = b.s

---------------------------------------------------------------------------
(* Results of executing a node: k is "normal" or what was thrown           *)
(* ("ReturnSignal", "BreakSignal", "ContinueSignal", "Error"); "hang" is   *)
(* the cut-off of a loop that ran MaxIter iterations.                      *)

Normal(v, s) == [k |-> "normal", v |-> v, st |-> s]
Throw(k, v, s) == [k |-> k, v |-> v, st |-> s]
ThrowError(msg, s) == [k |-> "Error", v |-> ErrorObject(msg), st |-> s]
Hang(s) == [k |-> "hang", v |-> Undefined, st |-> s]
Propagate(r) == [k |-> r.k, v |-> r.v, st |-> r.st]

---------------------------------------------------------------------------
(* ExecutionContext: a frame is [parent, variables, breakSignal,           *)
(* continueSignal]; a context is the index of its frame in st.frames and   *)
(* parent = 0 means no parent.                                             *)

BuiltInNames ==
  {"print", "typeOf", "now", "random", "isNaN", "abs", "sqrt", "floor",
   "ceil", "fetch"}

\* this.variables[name] = value
setVariable(s, ctx, name, value) ==
  [s EXCEPT !.frames[ctx].variables =
     [x \in DOMAIN @ \cup {name} |-> IF x = name THEN value ELSE @[x]]]

\* The ten setVariable calls of injectBuiltIns on the frame `frame`.
injectBuiltIns(frame) == [x \in BuiltInNames |-> BuiltIn(x, frame)]

\* new ExecutionContext(parent); the new context is Len of the new frames.
NewExecutionContext(s, parent) ==
  [s EXCEPT !.frames =
     Append(@, [parent |-> parent,
                variables |-> injectBuiltIns(Len(s.frames) + 1),
                breakSignal |-> FALSE,
                continueSignal |-> FALSE])]

createChildContext(s, ctx) == NewExecutionContext(s, ctx)

\* The context the last createChildContext on store s made.
Newest(s) == Len(s.frames)

RECURSIVE getVariable(_, _, _)
getVariable(s, ctx, name) ==
  IF name \in DOMAIN s.frames[ctx].variables
  THEN Normal(s.frames[ctx].variables[name], s)
  ELSE IF s.frames[ctx].parent # 0
       THEN getVariable(s, s.frames[ctx].parent, name)
       ELSE ThrowError("Undefined variable: " \o name, s)

EmptyStore == [frames |-> <<>>, closures |-> <<>>, arrays |-> <<>>, out |-> <<>>]

---------------------------------------------------------------------------
(* The node set: a node is a record whose field `node` names its class.    *)
(* An optional statement list that is left out is the empty list.          *)

LiteralNode(value) == [node |-> "LiteralNode", value |-> value]
VariableReferenceNode(name) == [node |-> "VariableReferenceNode", name |-> name]
VariableDeclarationNode(varType, name, expression) ==
  [node |-> "VariableDeclarationNode", varType |-> varType, name |-> name,
   expression |-> expression]
AssignmentNode(name, expression) ==
  [node |-> "AssignmentNode", name |-> name, expression |-> expression]
ReturnNode(expression) == [node |-> "ReturnNode", expression |-> expression]
BreakNode == [node |-> "BreakNode"]
ContinueNode == [node |-> "ContinueNode"]
ErrorNode(message) == [node |-> "ErrorNode", message |-> message]
\* hasReturnType: declaredReturnType was given.  A name that is null is "".
FunctionLiteralNode_typed(name, params, body, declaredParamTypes, hasReturnType, declaredReturnType, pure) ==
  [node |-> "FunctionLiteralNode", name |-> name, params |-> params,
   body |-> body, declaredParamTypes |-> declaredParamTypes,
   hasReturnType |-> hasReturnType, declaredReturnType |-> declaredReturnType,
   pure |-> pure]
\* new FunctionLiteralNode(name, params, body, undefined, undefined, pure)
FunctionLiteralNode(name, params, body, pure) ==
  FunctionLiteralNode_typed(name, params, body, <<>>, FALSE, [kind |-> "void"], pure)
ArrowFunctionNode(paramNames, body) ==
  [node |-> "ArrowFunctionNode", paramNames |-> paramNames, body |-> body]
FunctionCallNode(functionName, args) ==
  [node |-> "FunctionCallNode", functionName |-> functionName, args |-> args]
OperatorNode(operator, left, right) ==
  [node |-> "OperatorNode", operator |-> operator, operands |-> <<left, right>>]
MethodCallNode(target, methodName, args) ==
  [node |-> "MethodCallNode", target |-> target, methodName |-> methodName,
   args |-> args]
ArrayLiteralNode(elements) == [node |-> "ArrayLiteralNode", elements |-> elements]
BlockNode(statements) == [node |-> "BlockNode", statements |-> statements]
IfNode(condition, thenBranch, elseBranch) ==
  [node |-> "IfNode", condition |-> condition, thenBranch |-> thenBranch,
   elseBranch |-> elseBranch]
SignalNode(signal) == [node |-> "SignalNode", signal |-> signal]
WhileNode(condition, body) ==
  [node |-> "WhileNode", condition |-> condition, body |-> body]
ForNode(init, condition, update, body) ==
  [node |-> "ForNode", init |-> init, condition |-> condition,
   update |-> update, body |-> body]
\* cases: a sequence of [match, body]; hasDefault: whether defaultCase is given.
SwitchNode(expression, cases, hasDefault, defaultCase) ==
  [node |-> "SwitchNode", expression |-> expression, cases |-> cases,
   hasDefault |-> hasDefault, defaultCase |-> defaultCase]
DoWhileNode(body, condition) ==
  [node |-> "DoWhileNode", body |-> body, condition |-> condition]
ForEachNode(itemName, iterable, body) ==
  [node |-> "ForEachNode", itemName |-> itemName, iterable |-> iterable,
   body |-> body]
TryCatchNode(tryBlock, catchVar, catchBlock) ==
  [node |-> "TryCatchNode", tryBlock |-> tryBlock, catchVar |-> catchVar,
   catchBlock |-> catchBlock]

---------------------------------------------------------------------------
(* Conversions of values to text *)

\* JavaScript's String(v); an array is its elements joined by ",".
RECURSIVE ToStr(_, _)
JoinFrom(s, elems, i) ==
  LET RECURSIVE go(_)
      go(j) ==
        IF j > Len(elems) THEN ""
        ELSE (IF j > 1 THEN "," ELSE "")
             \o (IF elems[j].t \in {"null", "undefined"} THEN "" ELSE ToStr(s, elems[j]))
             \o go(j + 1)
  IN go(i)
ToStr(s, v) ==
  CASE v.t = "number" -> IF IsNaN(v) THEN "NaN" ELSE ToString(v.n)
    [] v.t = "string" -> v.s
    [] v.t = "boolean" -> IF v.n = 1 THEN "true" ELSE "false"
    [] v.t = "null" -> "null"
    [] v.t = "undefined" -> "undefined"
    [] v.t = "array" -> JoinFrom(s, s.arrays[v.n], 1)
    [] v.t = "error" -> "Error: " \o v.s
    [] OTHER -> "[host]"

\* JSON.stringify of one element of an array: undefined, a function and NaN
\* are written null, an Error object (no enumerable property) is {}.
RECURSIVE JSONElement(_, _)
JSONElements(s, elems) ==
  LET RECURSIVE go(_)
      go(j) ==
        IF j > Len(elems) THEN ""
        ELSE (IF j > 1 THEN "," ELSE "") \o JSONElement(s, elems[j]) \o go(j + 1)
  IN "[" \o go(1) \o "]"
JSONElement(s, v) ==
  CASE v.t = "number" -> IF IsNaN(v) THEN "null" ELSE ToString(v.n)
    [] v.t = "string" -> "\"" \o v.s \o "\""
    [] v.t = "boolean" -> IF v.n = 1 THEN "true" ELSE "false"
    [] v.t \in {"null", "undefined", "function"} -> "null"
    [] v.t = "array" -> JSONElements(s, s.arrays[v.n])
    [] OTHER -> "{}"

\* JSON.stringify(args)
JSONStringify(s, args) == JSONElements(s, args)

---------------------------------------------------------------------------
(* The execution pass *)

RECURSIVE execute(_, _, _)

\* for (const stmt of stmts) { result = stmt.execute(ctx); } from statement i
\* on, `result` being the variable the statements' values are assigned to.
\* The field result is that variable when the run ended, normally or not.
RECURSIVE executeStatements(_, _, _, _, _)
executeStatements(stmts, i, ctx, s, result) ==
  IF i > Len(stmts)
  THEN [k |-> "normal", v |-> result, st |-> s, result |-> result]
  ELSE LET r == execute(stmts[i], ctx, s)
       IN IF r.k = "normal"
          THEN executeStatements(stmts, i + 1, ctx, r.st, r.v)
          ELSE [k |-> r.k, v |-> r.v, st |-> r.st, result |-> result]

LiteralNode_execute(node, ctx, s) == Normal(node.value, s)

VariableReferenceNode_execute(node, ctx, s) == getVariable(s, ctx, node.name)

\* toFunction of a FunctionLiteralNode or an ArrowFunctionNode: a new closure
\* over the context; a pure function literal gets a memoize cache of its own.
toFunction(node, context, s) ==
  LET s1 == [s EXCEPT !.closures =
               Append(@, [node |-> node, context |-> context, cache |-> <<>>])]
  IN Normal(Closure(Len(s1.closures)), s1)

\* The typeChecks table of VariableDeclarationNode.execute.
typeChecks ==
  {"number", "string", "boolean", "undefined", "null", "bigint", "array",
   "object"}
checkFn(varType, v) ==
  CASE varType \in {"number", "string", "boolean"} -> TypeOf(v) = varType
    [] varType = "undefined" -> v.t = "undefined"
    [] varType = "null" -> v.t = "null"
    [] varType = "bigint" -> FALSE
    [] varType = "array" -> IsArray(v)
    [] varType = "object" -> v.t # "null" /\ TypeOf(v) = "object" /\ ~IsArray(v)
got(v) ==
  IF v.t = "null" THEN "null" ELSE IF IsArray(v) THEN "array" ELSE TypeOf(v)

\* The declaration as it would be if kind "function" executed its
\* initializer like the other kinds and then asked for a callable value.
VariableDeclarationNode_execute_eager(node, ctx, s) ==
  IF node.varType = "function"
        /\ node.expression.node \in {"FunctionLiteralNode", "ArrowFunctionNode"}
  THEN LET f == toFunction(node.expression, ctx, s)
       IN Normal(f.v, setVariable(f.st, ctx, node.name, f.v))
  ELSE LET r == execute(node.expression, ctx, s)
       IN IF r.k # "normal" THEN r
          ELSE IF node.varType = "function"
          THEN IF IsCallable(r.v)
               THEN Normal(r.v, setVariable(r.st, ctx, node.name, r.v))
               ELSE ThrowError("Variable '" \o node.name
                               \o "' expected a function literal", r.st)
          ELSE IF node.varType \notin typeChecks
          THEN ThrowError("Unsupported variable type: " \o node.varType, r.st)
          ELSE IF ~checkFn(node.varType, r.v)
          THEN ThrowError("Variable '" \o node.name \o "' expected " \o node.varType
                          \o ", got " \o got(r.v), r.st)
          ELSE Normal(r.v, setVariable(r.st, ctx, node.name, r.v))

VariableDeclarationNode_execute(node, ctx, s) ==
  IF node.varType = "function"
  THEN IF node.expression.node \in {"FunctionLiteralNode", "ArrowFunctionNode"}
       THEN LET f == toFunction(node.expression, ctx, s)
            IN Normal(f.v, setVariable(f.st, ctx, node.name, f.v))
       ELSE ThrowError("Variable '" \o node.name \o "' expected a function literal", s)
  ELSE LET r == execute(node.expression, ctx, s)
       IN IF r.k # "normal" THEN r
          ELSE IF node.varType \notin typeChecks
          THEN ThrowError("Unsupported variable type: " \o node.varType, r.st)
          ELSE IF ~checkFn(node.varType, r.v)
          THEN ThrowError("Variable '" \o node.name \o "' expected " \o node.varType
                          \o ", got " \o got(r.v), r.st)
          ELSE Normal(r.v, setVariable(r.st, ctx, node.name, r.v))

\* Assignment as it would be if it wrote into the parent frame of the
\* current context.
AssignmentNode_execute_parent(node, ctx, s) ==
  LET r == execute(node.expression, ctx, s)
      target == IF r.st.frames[ctx].parent # 0 THEN r.st.frames[ctx].parent ELSE ctx
  IN IF r.k # "normal" THEN r
     ELSE Normal(r.v, setVariable(r.st, target, node.name, r.v))

AssignmentNode_execute(node, ctx, s) ==
  LET r == execute(node.expression, ctx, s)
  IN IF r.k # "normal" THEN r
     ELSE Normal(r.v, setVariable(r.st, ctx, node.name, r.v))

ReturnNode_execute(node, ctx, s) ==
  LET r == execute(node.expression, ctx, s)
  IN IF r.k # "normal" THEN r ELSE Throw("ReturnSignal", r.v, r.st)

BreakNode_execute(node, ctx, s) == Throw("BreakSignal", Undefined, s)

ContinueNode_execute(node, ctx, s) == Throw("ContinueSignal", Undefined, s)

ErrorNode_execute(node, ctx, s) ==
  LET r == execute(node.message, ctx, s)
  IN IF r.k # "normal" THEN r ELSE ThrowError(ToStr(r.st, r.v), r.st)

FunctionLiteralNode_execute(node, ctx, s) ==
  ThrowError("Function literal must be transformed into a callable via toFunction().", s)

ArrowFunctionNode_execute(node, ctx, s) ==
  ThrowError("Arrow function must be transformed into a callable via toFunction().", s)

\* names.forEach((p, i) => ctx.setVariable(p, args[i])); a missing argument
\* is undefined.
RECURSIVE bindParameters(_, _, _, _, _)
bindParameters(s, ctx, names, args, i) ==
  IF i > Len(names) THEN s
  ELSE bindParameters(
         setVariable(s, ctx, names[i], IF i <= Len(args) THEN args[i] ELSE Undefined),
         ctx, names, args, i + 1)

\* The catch of the closure as it would be if a call absorbed Break and
\* Continue as it absorbs Return.
FunctionLiteralNode_absorbs_signals(k) ==
  k \in {"ReturnSignal", "BreakSignal", "ContinueSignal"}

\* What the catch of the closure of a function literal turns into the
\* call's result.
FunctionLiteralNode_absorbs(k) == k = "ReturnSignal"

\* The closure of a function literal as it would be if a body that ends
\* without a Return yielded the value of its last statement.
FunctionLiteralNode_fn_last(c, args, s) ==
  LET s1 == createChildContext(s, c.context)
      localCtx == Newest(s1)
  IN IF Len(args) # Len(c.node.params)
     THEN ThrowError("Argument count mismatch.", s1)
     ELSE LET b == executeStatements(c.node.body, 1, localCtx,
                     bindParameters(s1, localCtx, c.node.params, args, 1), Undefined)
          IN IF b.k = "normal" THEN Normal(b.result, b.st)
             ELSE IF b.k = "ReturnSignal" THEN Normal(b.v, b.st)
             ELSE Propagate(b)

\* The closure fn that FunctionLiteralNode.toFunction makes, called with args.
FunctionLiteralNode_fn(c, args, s) ==
  LET s1 == createChildContext(s, c.context)
      localCtx == Newest(s1)
  IN IF Len(args) # Len(c.node.params)
     THEN ThrowError("Argument count mismatch.", s1)
     ELSE LET b == executeStatements(c.node.body, 1, localCtx,
                     bindParameters(s1, localCtx, c.node.params, args, 1), Undefined)
          IN IF b.k = "normal" THEN Normal(Undefined, b.st)
             ELSE IF FunctionLiteralNode_absorbs(b.k) THEN Normal(b.v, b.st)
             ELSE Propagate(b)

\* The arrow closure as it would be under dynamic scoping: the child is
\* made from the context most recently created, that of the caller.
ArrowFunctionNode_fn_dynamic(c, args, s) ==
  LET s1 == createChildContext(s, Newest(s))
      childCtx == Newest(s1)
  IN execute(c.node.body, childCtx,
             bindParameters(s1, childCtx, c.node.paramNames, args, 1))

\* The arrow closure as it would be if it absorbed a Return as the closure
\* of a function literal does.
ArrowFunctionNode_fn_absorbs(c, args, s) ==
  LET s1 == createChildContext(s, c.context)
      childCtx == Newest(s1)
      r == execute(c.node.body, childCtx,
                   bindParameters(s1, childCtx, c.node.paramNames, args, 1))
  IN IF r.k = "ReturnSignal" THEN Normal(r.v, r.st) ELSE r

\* The closure that ArrowFunctionNode.toFunction makes, called with args.
ArrowFunctionNode_fn(c, args, s) ==
  LET s1 == createChildContext(s, c.context)
      childCtx == Newest(s1)
  IN execute(c.node.body, childCtx,
             bindParameters(s1, childCtx, c.node.paramNames, args, 1))

\* memoize's cache, a Map from key to value: a sequence of [key, value].
\* cache.has as it would be if an entry holding undefined counted as absent.
cacheHas_defined(cache, key) ==
  \E i \in 1..Len(cache) : cache[i].key = key /\ cache[i].value # Undefined

cacheHas(cache, key) == \E i \in 1..Len(cache) : cache[i].key = key
cacheGet(cache, key) ==
  cache[CHOOSE i \in 1..Len(cache) : cache[i].key = key].value
cacheSet(cache, key, value) ==
  IF cacheHas(cache, key)
  THEN [i \in 1..Len(cache) |->
          IF cache[i].key = key THEN [key |-> key, value |-> value] ELSE cache[i]]
  ELSE Append(cache, [key |-> key, value |-> value])

\* The key memoize files an argument list under.
memoizeKey(s, args) == JSONStringify(s, args)

\* memoize as it would be if the closures made from one node shared the
\* cache of the first of them.
memoize_perNode(id, args, s) ==
  LET key == memoizeKey(s, args)
      first == CHOOSE i \in 1..id :
                 /\ s.closures[i].node = s.closures[id].node
                 /\ \A k \in 1..(i - 1) : s.closures[k].node # s.closures[id].node
  IN IF cacheHas(s.closures[first].cache, key)
     THEN Normal(cacheGet(s.closures[first].cache, key), s)
     ELSE LET r == FunctionLiteralNode_fn(s.closures[id], args, s)
          IN IF r.k # "normal" THEN r
             ELSE Normal(r.v, [r.st EXCEPT !.closures[first].cache =
                                 cacheSet(@, key, r.v)])

\* memoize as it would be if a call of fn that raises left an entry, holding
\* undefined, under the key.
memoize_caches_raise(id, args, s) ==
  LET key == memoizeKey(s, args)
  IN IF cacheHas(s.closures[id].cache, key)
     THEN Normal(cacheGet(s.closures[id].cache, key), s)
     ELSE LET r == FunctionLiteralNode_fn(s.closures[id], args, s)
          IN IF r.k # "normal"
             THEN [r EXCEPT !.st.closures[id].cache = cacheSet(@, key, Undefined)]
             ELSE Normal(r.v, [r.st EXCEPT !.closures[id].cache =
                                 cacheSet(@, key, r.v)])

\* The wrapper memoize(fn) returns, for closure id, called with args.
memoize(id, args, s) ==
  LET key == memoizeKey(s, args)
  IN IF cacheHas(s.closures[id].cache, key)
     THEN Normal(cacheGet(s.closures[id].cache, key), s)
     ELSE LET r == FunctionLiteralNode_fn(s.closures[id], args, s)
          IN IF r.k # "normal" THEN r
             ELSE Normal(r.v, [r.st EXCEPT !.closures[id].cache =
                                 cacheSet(@, key, r.v)])

\* The built-in callables of injectBuiltIns.  print writes its arguments to
\* the console; now, random, sqrt and fetch give values the model does not
\* track.
callBuiltIn(name, args, s) ==
  LET x == IF Len(args) >= 1 THEN args[1] ELSE Undefined
  IN CASE name = "print" -> Normal(Undefined, [s EXCEPT !.out = Append(@, args)])
       [] name = "typeOf" -> Normal(Str(IF IsArray(x) THEN "array" ELSE TypeOf(x)), s)
       [] name = "isNaN" /\ x.t = "number" -> Normal(Bool(IsNaN(x)), s)
       [] name = "abs" /\ x.t = "number" ->
            Normal(IF IsNaN(x) THEN x ELSE Num(IF x.n < 0 THEN 0 - x.n ELSE x.n), s)
       [] name \in {"floor", "ceil"} /\ x.t = "number" -> Normal(x, s)
       [] OTHER -> Normal(Host, s)

\* value(...evaluated): calling a callable value.
call(value, args, s) ==
  IF IsBuiltIn(value) THEN callBuiltIn(value.s, args, s)
  ELSE IF s.closures[value.n].node.node = "ArrowFunctionNode"
  THEN ArrowFunctionNode_fn(s.closures[value.n], args, s)
  ELSE IF s.closures[value.n].node.pure THEN memoize(value.n, args, s)
  ELSE FunctionLiteralNode_fn(s.closures[value.n], args, s)

\* this.args.map(...): the arguments of a call, evaluated in order; a
\* function literal is converted to a closure, not executed.
RECURSIVE evaluateArguments(_, _, _, _, _)
evaluateArguments(args, i, ctx, s, evaluated) ==
  IF i > Len(args) THEN [k |-> "normal", v |-> Undefined, st |-> s, args |-> evaluated]
  ELSE LET r == IF args[i].node = "FunctionLiteralNode"
                THEN toFunction(args[i], ctx, s)
                ELSE execute(args[i], ctx, s)
       IN IF r.k # "normal"
          THEN [k |-> r.k, v |-> r.v, st |-> r.st, args |-> evaluated]
          ELSE evaluateArguments(args, i + 1, ctx, r.st, Append(evaluated, r.v))

FunctionCallNode_execute(node, ctx, s) ==
  LET f == getVariable(s, ctx, node.functionName)
  IN IF f.k # "normal" THEN f
     ELSE IF ~IsCallable(f.v)
     THEN ThrowError("'" \o node.functionName \o "' is not callable", s)
     ELSE LET a == evaluateArguments(node.args, 1, ctx, s, <<>>)
          IN IF a.k # "normal" THEN Propagate(a) ELSE call(f.v, a.args, a.st)

\* JavaScript's conversion of a primitive to a number.
ToNumber(v) ==
  CASE v.t = "number" -> v
    [] v.t = "boolean" -> Num(v.n)
    [] v.t = "null" -> Num(0)
    [] v.t = "undefined" -> NaNValue
    [] OTHER -> Host

\* Math.floor(a / b) for integers a and b, b # 0.
FloorDiv(a, b) == IF b > 0 THEN a \div b ELSE (0 - a) \div (0 - b)

\* The arithmetic operators; a result that is no integer is not tracked.
arithmetic(op, a, b) ==
  LET x == ToNumber(a)
      y == ToNumber(b)
  IN IF x.t = "host" \/ y.t = "host" THEN Host
     ELSE IF IsNaN(x) \/ IsNaN(y) THEN NaNValue
     ELSE CASE op = "+" -> Num(x.n + y.n)
            [] op = "-" -> Num(x.n - y.n)
            [] op = "*" -> Num(x.n * y.n)
            [] op = "/" /\ y.n # 0 /\ FloorDiv(x.n, y.n) * y.n = x.n ->
                 Num(FloorDiv(x.n, y.n))
            [] op = "//" /\ y.n # 0 -> Num(FloorDiv(x.n, y.n))
            [] op = "^" /\ y.n = 0 -> Num(1)
            [] op = "^" /\ y.n > 0 -> Num(x.n ^ y.n)
            [] OTHER -> Host

Primitive(v) == v.t \in {"number", "string", "boolean", "null", "undefined"}

\* leftVal + rightVal: text when either side is a string.
plus(s, a, b) ==
  IF ~Primitive(a) \/ ~Primitive(b) THEN Host
  ELSE IF a.t = "string" \/ b.t = "string" THEN Str(ToStr(s, a) \o ToStr(s, b))
  ELSE arithmetic("+", a, b)

\* The relational operators; the order of two strings is not tracked.
relational(op, a, b) ==
  LET x == ToNumber(a)
      y == ToNumber(b)
  IN IF (a.t = "string" /\ b.t = "string") \/ x.t = "host" \/ y.t = "host" THEN Host
     ELSE IF IsNaN(x) \/ IsNaN(y) THEN Bool(FALSE)
     ELSE CASE op = "<" -> Bool(x.n < y.n)
            [] op = "<=" -> Bool(x.n <= y.n)
            [] op = ">" -> Bool(x.n > y.n)
            [] op = ">=" -> Bool(x.n >= y.n)

\* leftVal === rightVal; the identity of Error objects is not tracked.
strictEquality(a, b) ==
  IF a.t \in {"error", "host"} \/ b.t \in {"error", "host"} THEN Host
  ELSE Bool(StrictEquals(a, b))

\* The switch over this.operator of OperatorNode.execute.
applyOperator(op, leftVal, rightVal, s) ==
  CASE op = "+" -> Normal(plus(s, leftVal, rightVal), s)
    [] op \in {"-", "*", "/", "//", "^"} -> Normal(arithmetic(op, leftVal, rightVal), s)
    [] op = "==" -> Normal(strictEquality(leftVal, rightVal), s)
    [] op = "!==" ->
         Normal(IF strictEquality(leftVal, rightVal).t = "host" THEN Host
                ELSE Bool(~StrictEquals(leftVal, rightVal)), s)
    [] op \in {"<", "<=", ">", ">="} -> Normal(relational(op, leftVal, rightVal), s)
    [] op = "&&" -> Normal(Bool(Truthy(leftVal) /\ Truthy(rightVal)), s)
    [] op = "||" -> Normal(Bool(Truthy(leftVal) \/ Truthy(rightVal)), s)
    [] op = "concat" ->
         IF IsArray(leftVal) /\ IsArray(rightVal)
         THEN LET s1 == [s EXCEPT !.arrays =
                           Append(@, s.arrays[leftVal.n] \o s.arrays[rightVal.n])]
              IN Normal(ArrayRef(Len(s1.arrays)), s1)
         ELSE ThrowError("Operator 'concat' requires two arrays.", s)
    [] op = "><" -> Normal(Str(ToStr(s, leftVal) \o ToStr(s, rightVal)), s)
    [] OTHER -> ThrowError("Unknown operator: " \o op, s)

\* OperatorNode.execute as it would be if && and || left the right operand
\* alone when the left one decides.
OperatorNode_execute_shortcut(node, ctx, s) ==
  LET l == execute(node.operands[1], ctx, s)
  IN IF l.k # "normal" THEN l
     ELSE IF node.operator = "&&" /\ ~Truthy(l.v) THEN Normal(Bool(FALSE), l.st)
     ELSE IF node.operator = "||" /\ Truthy(l.v) THEN Normal(Bool(TRUE), l.st)
     ELSE LET r == execute(node.operands[2], ctx, l.st)
          IN IF r.k # "normal" THEN r
             ELSE applyOperator(node.operator, l.v, r.v, r.st)

\* Both operands are evaluated, the left one first, before the operator is
\* looked at.
OperatorNode_execute(node, ctx, s) ==
  LET l == execute(node.operands[1], ctx, s)
  IN IF l.k # "normal" THEN l
     ELSE LET r == execute(node.operands[2], ctx, l.st)
          IN IF r.k # "normal" THEN r
             ELSE applyOperator(node.operator, l.v, r.v, r.st)

\* The built-in methods of MethodCallNode.execute.  Tracked: length of a
\* string, length, push and pop of an array, toString of a number; the
\* other allow-listed methods give a value the model does not track.
applyMethod(result, methodName, evaluatedArgs, s) ==
  CASE result.t = "string" ->
         IF methodName = "length" THEN Normal(Num(Len(result.s)), s)
         ELSE IF methodName \in {"toUpperCase", "toLowerCase", "slice", "parseInt",
                                 "parseFloat"}
         THEN Normal(Host, s)
         ELSE ThrowError("Unknown string method: " \o methodName, s)
    [] result.t = "array" ->
         CASE methodName = "length" -> Normal(Num(Len(s.arrays[result.n])), s)
           [] methodName = "push" ->
                Normal(Num(Len(s.arrays[result.n]) + Len(evaluatedArgs)),
                       [s EXCEPT !.arrays[result.n] = @ \o evaluatedArgs])
           [] methodName = "pop" ->
                IF Len(s.arrays[result.n]) = 0 THEN Normal(Undefined, s)
                ELSE Normal(s.arrays[result.n][Len(s.arrays[result.n])],
                            [s EXCEPT !.arrays[result.n] = SubSeq(@, 1, Len(@) - 1)])
           [] methodName \in {"map", "filter"} -> Normal(Host, s)
           [] OTHER -> ThrowError("Unknown array method: " \o methodName, s)
    [] result.t = "number" ->
         IF methodName = "toString" THEN Normal(Str(ToStr(s, result)), s)
         ELSE ThrowError("Unknown number method: " \o methodName, s)
    [] OTHER ->
         IF methodName \in {"toString", "valueOf"} THEN Normal(Host, s)
         ELSE ThrowError("'" \o methodName \o "' is not a method on " \o ToStr(s, result), s)

\* this.args.map((arg) => arg.execute(context)) and the elements of an
\* array literal: nodes executed in order.
RECURSIVE executeAll(_, _, _, _, _)
executeAll(list, i, ctx, s, values) ==
  IF i > Len(list) THEN [k |-> "normal", v |-> Undefined, st |-> s, values |-> values]
  ELSE LET r == execute(list[i], ctx, s)
       IN IF r.k # "normal"
          THEN [k |-> r.k, v |-> r.v, st |-> r.st, values |-> values]
          ELSE executeAll(list, i + 1, ctx, r.st, Append(values, r.v))

MethodCallNode_execute(node, ctx, s) ==
  LET t == execute(node.target, ctx, s)
  IN IF t.k # "normal" THEN t
     ELSE IF t.v.t \in {"null", "undefined"}
     THEN ThrowError("Cannot call method '" \o node.methodName \o "' on " \o t.v.t, t.st)
     ELSE LET a == executeAll(node.args, 1, ctx, t.st, <<>>)
          IN IF a.k # "normal" THEN Propagate(a)
             ELSE applyMethod(t.v, node.methodName, a.values, a.st)

ArrayLiteralNode_execute(node, ctx, s) ==
  LET e == executeAll(node.elements, 1, ctx, s, <<>>)
  IN IF e.k # "normal" THEN Propagate(e)
     ELSE LET s1 == [e.st EXCEPT !.arrays = Append(@, e.values)]
          IN Normal(ArrayRef(Len(s1.arrays)), s1)

---------------------------------------------------------------------------
(* Control flow *)

BlockNode_execute(node, ctx, s) ==
  LET s1 == createChildContext(s, ctx)
  IN Propagate(executeStatements(node.statements, 1, Newest(s1), s1, Undefined))

IfNode_execute(node, ctx, s) ==
  LET c == execute(node.condition, ctx, s)
  IN IF c.k # "normal" THEN c
     ELSE IF TypeOf(c.v) # "boolean" THEN ThrowError("Condition must be boolean", c.st)
     ELSE LET branch == IF c.v.n = 1 THEN node.thenBranch ELSE node.elseBranch
              s1 == createChildContext(c.st, ctx)
          IN Propagate(executeStatements(branch, 1, Newest(s1), s1, Undefined))

SignalNode_execute(node, ctx, s) ==
  CASE node.signal = "break" ->
         Normal(Undefined, [s EXCEPT !.frames[ctx].breakSignal = TRUE])
    [] node.signal = "continue" ->
         Normal(Undefined, [s EXCEPT !.frames[ctx].continueSignal = TRUE])
    [] OTHER -> Normal(Undefined, s)

\* The context WhileNode.execute hands to its body statements.
WhileNode_bodyContext(context, loopCtx) == context

\* The catch of a loop as it would be if Break were handled like Continue.
WhileNode_catch_resume(k) ==
  IF k \in {"ContinueSignal", "BreakSignal"} THEN "continue" ELSE "throw"

\* The catch around the body of WhileNode.execute: what each thrown thing
\* makes the loop do.
WhileNode_catch(k) ==
  CASE k = "ContinueSignal" -> "continue"
    [] k = "BreakSignal" -> "break"
    [] OTHER -> "throw"

\* One pass of the while (true) of WhileNode.execute, `result` being the
\* loop's result variable and iter the number of the iteration.
RECURSIVE WhileNode_loop(_, _, _, _, _)
WhileNode_loop(node, ctx, s, result, iter) ==
  IF iter > MaxIter THEN Hang(s)
  ELSE
  LET c == execute(node.condition, ctx, s)
  IN IF c.k # "normal" THEN c
     ELSE IF TypeOf(c.v) # "boolean" THEN ThrowError("Condition must be boolean", c.st)
     ELSE IF c.v.n = 0 THEN Normal(result, c.st)
     ELSE LET s1 == createChildContext(c.st, ctx)
              loopCtx == Newest(s1)
              b == executeStatements(node.body, 1, WhileNode_bodyContext(ctx, loopCtx),
                                     s1, result)
          IN CASE b.k = "normal" ->
                    IF b.st.frames[loopCtx].breakSignal THEN Normal(b.result, b.st)
                    ELSE WhileNode_loop(node, ctx, b.st, b.result, iter + 1)
               [] b.k # "normal" /\ WhileNode_catch(b.k) = "continue" ->
                    WhileNode_loop(node, ctx, b.st, b.result, iter + 1)
               [] b.k # "normal" /\ WhileNode_catch(b.k) = "break" ->
                    Normal(b.result, b.st)
               [] OTHER -> Propagate(b)

WhileNode_execute(node, ctx, s) == WhileNode_loop(node, ctx, s, Undefined, 1)

\* The catch around the body of ForNode.execute: what each thrown thing
\* makes the loop do.
ForNode_catch(k) ==
  CASE k = "ContinueSignal" -> "continue"
    [] k = "BreakSignal" -> "break"
    [] OTHER -> "throw"

\* One pass of the while (true) of ForNode.execute.  The update runs inside
\* the try, after the body, and once more in the catch of a ContinueSignal.
RECURSIVE ForNode_loop(_, _, _, _, _)
ForNode_loop(node, ctx, s, result, iter) ==
  IF iter > MaxIter THEN Hang(s)
  ELSE
  LET c == execute(node.condition, ctx, s)
  IN IF c.k # "normal" THEN c
     ELSE IF TypeOf(c.v) # "boolean" THEN ThrowError("Condition must be boolean", c.st)
     ELSE IF c.v.n = 0 THEN Normal(result, c.st)
     ELSE LET s1 == createChildContext(c.st, ctx)
              b == executeStatements(node.body, 1, Newest(s1), s1, result)
              u == execute(node.update, ctx, b.st)
              \* what the try block ended with
              try == IF b.k = "normal" THEN u ELSE Propagate(b)
              \* the update of the catch of a ContinueSignal
              again == execute(node.update, ctx, try.st)
          IN CASE try.k = "normal" -> ForNode_loop(node, ctx, try.st, b.result, iter + 1)
               [] try.k # "normal" /\ ForNode_catch(try.k) = "continue" ->
                    IF again.k # "normal" THEN again
                    ELSE ForNode_loop(node, ctx, again.st, b.result, iter + 1)
               [] try.k # "normal" /\ ForNode_catch(try.k) = "break" ->
                    Normal(b.result, try.st)
               [] OTHER -> try

ForNode_execute(node, ctx, s) ==
  LET i == execute(node.init, ctx, s)
  IN IF i.k # "normal" THEN i ELSE ForNode_loop(node, ctx, i.st, Undefined, 1)

\* The cases of a switch as they would be without the return after the
\* body of a matching case: the later matches are evaluated too, the later
\* matching bodies and the default executed.
RECURSIVE SwitchNode_cases_fall(_, _, _, _, _)
SwitchNode_cases_fall(node, i, value, ctx, s) ==
  IF i > Len(node.cases)
  THEN IF node.hasDefault
       THEN LET s1 == createChildContext(s, ctx)
            IN Propagate(executeStatements(node.defaultCase, 1, Newest(s1), s1, Undefined))
       ELSE Normal(Undefined, s)
  ELSE LET m == execute(node.cases[i].match, ctx, s)
       IN IF m.k # "normal" THEN m
          ELSE IF StrictEquals(value, m.v)
          THEN LET s1 == createChildContext(m.st, ctx)
                   b == executeStatements(node.cases[i].body, 1, Newest(s1), s1,
                                          Undefined)
               IN IF b.k # "normal" THEN Propagate(b)
                  ELSE SwitchNode_cases_fall(node, i + 1, value, ctx, b.st)
          ELSE SwitchNode_cases_fall(node, i + 1, value, ctx, m.st)

\* value === caseBlock.match.execute(context), case after case from case i.
RECURSIVE SwitchNode_cases(_, _, _, _, _)
SwitchNode_cases(node, i, value, ctx, s) ==
  IF i > Len(node.cases)
  THEN IF node.hasDefault
       THEN LET s1 == createChildContext(s, ctx)
            IN Propagate(executeStatements(node.defaultCase, 1, Newest(s1), s1, Undefined))
       ELSE Normal(Undefined, s)
  ELSE LET m == execute(node.cases[i].match, ctx, s)
       IN IF m.k # "normal" THEN m
          ELSE IF StrictEquals(value, m.v)
          THEN LET s1 == createChildContext(m.st, ctx)
               IN Propagate(executeStatements(node.cases[i].body, 1, Newest(s1), s1,
                                              Undefined))
          ELSE SwitchNode_cases(node, i + 1, value, ctx, m.st)

SwitchNode_execute(node, ctx, s) ==
  LET v == execute(node.expression, ctx, s)
  IN IF v.k # "normal" THEN v ELSE SwitchNode_cases(node, 1, v.v, ctx, v.st)

\* The test of the while (...) that ends the do of DoWhileNode.execute.
DoWhileNode_test(cond) == Truthy(cond)

\* The catch around the body of DoWhileNode.execute: what each thrown thing
\* makes the loop do.
DoWhileNode_catch(k) ==
  CASE k = "ContinueSignal" -> "continue"
    [] k = "BreakSignal" -> "break"
    [] OTHER -> "throw"

\* The loop of DoWhileNode.execute as it would be if the condition were
\* evaluated in the context of the pass, childCtx.
RECURSIVE DoWhileNode_loop_child(_, _, _, _, _)
DoWhileNode_loop_child(node, ctx, s, result, iter) ==
  IF iter > MaxIter THEN Hang(s)
  ELSE
  LET s1 == createChildContext(s, ctx)
      childCtx == Newest(s1)
      b == executeStatements(node.body, 1, childCtx, s1, result)
      c == execute(node.condition, childCtx, b.st)
      test == IF c.k # "normal" THEN c
              ELSE IF DoWhileNode_test(c.v)
              THEN DoWhileNode_loop_child(node, ctx, c.st, b.result, iter + 1)
              ELSE Normal(b.result, c.st)
  IN CASE b.k = "normal" ->
            IF b.st.frames[childCtx].breakSignal THEN Normal(b.result, b.st) ELSE test
       [] b.k # "normal" /\ DoWhileNode_catch(b.k) = "continue" -> test
       [] b.k # "normal" /\ DoWhileNode_catch(b.k) = "break" -> Normal(b.result, b.st)
       [] OTHER -> Propagate(b)

\* One pass of the do ... while of DoWhileNode.execute; a continue goes on
\* with the test of the condition.
RECURSIVE DoWhileNode_loop(_, _, _, _, _)
DoWhileNode_loop(node, ctx, s, result, iter) ==
  IF iter > MaxIter THEN Hang(s)
  ELSE
  LET s1 == createChildContext(s, ctx)
      childCtx == Newest(s1)
      b == executeStatements(node.body, 1, childCtx, s1, result)
      c == execute(node.condition, ctx, b.st)
      test == IF c.k # "normal" THEN c
              ELSE IF DoWhileNode_test(c.v)
              THEN DoWhileNode_loop(node, ctx, c.st, b.result, iter + 1)
              ELSE Normal(b.result, c.st)
  IN CASE b.k = "normal" ->
            IF b.st.frames[childCtx].breakSignal THEN Normal(b.result, b.st) ELSE test
       [] b.k # "normal" /\ DoWhileNode_catch(b.k) = "continue" -> test
       [] b.k # "normal" /\ DoWhileNode_catch(b.k) = "break" -> Normal(b.result, b.st)
       [] OTHER -> Propagate(b)

DoWhileNode_execute(node, ctx, s) == DoWhileNode_loop(node, ctx, s, Undefined, 1)

\* The catch of a loop as it would be if everything but Continue ended the
\* loop quietly.
ForEachNode_catch_quiet(k) ==
  IF k = "ContinueSignal" THEN "continue" ELSE "break"

\* The catch around the body of ForEachNode.execute: what each thrown thing
\* makes the loop do.
ForEachNode_catch(k) ==
  CASE k = "ContinueSignal" -> "continue"
    [] k = "BreakSignal" -> "break"
    [] OTHER -> "throw"

\* One pass of the for (const item of array) of ForEachNode.execute; the
\* array is read again at every pass.
RECURSIVE ForEachNode_loop(_, _, _, _, _, _)
ForEachNode_loop(node, array, i, ctx, s, result) ==
  IF i > Len(s.arrays[array.n]) THEN Normal(result, s)
  ELSE IF i > MaxIter THEN Hang(s)
  ELSE
  LET s1 == createChildContext(s, ctx)
      loopCtx == Newest(s1)
      b == executeStatements(node.body, 1, loopCtx,
                             setVariable(s1, loopCtx, node.itemName, s.arrays[array.n][i]),
                             result)
  IN CASE b.k = "normal" \/ ForEachNode_catch(b.k) = "continue" ->
            ForEachNode_loop(node, array, i + 1, ctx, b.st, b.result)
       [] b.k # "normal" /\ ForEachNode_catch(b.k) = "break" -> Normal(b.result, b.st)
       [] OTHER -> Propagate(b)

ForEachNode_execute(node, ctx, s) ==
  LET a == execute(node.iterable, ctx, s)
  IN IF a.k # "normal" THEN a
     ELSE IF ~IsArray(a.v) THEN ThrowError("Target is not iterable", a.st)
     ELSE ForEachNode_loop(node, a.v, 1, ctx, a.st, Undefined)

\* The signals the catch of TryCatchNode.execute throws again.
\* The rethrow test as it would be if Return were not among the signals.
TryCatchNode_rethrows_loops(k) == k \in {"BreakSignal", "ContinueSignal"}

TryCatchNode_rethrows(k) == k \in {"ReturnSignal", "BreakSignal", "ContinueSignal"}

\* The catch context as it would be if it were made a child of the try
\* context.
TryCatchNode_catchParent_try(context, tryCtx) == tryCtx

\* The context the catch context is made a child of.
TryCatchNode_catchParent(context, tryCtx) == context

TryCatchNode_execute(node, ctx, s) ==
  LET s1 == createChildContext(s, ctx)
      t == executeStatements(node.tryBlock, 1, Newest(s1), s1, Undefined)
      s2 == createChildContext(t.st, TryCatchNode_catchParent(ctx, Newest(s1)))
      catchCtx == Newest(s2)
  IN IF t.k = "normal" \/ t.k = "hang" \/ TryCatchNode_rethrows(t.k) THEN Propagate(t)
     ELSE Propagate(executeStatements(node.catchBlock, 1, catchCtx,
                                      setVariable(s2, catchCtx, node.catchVar, t.v),
                                      Undefined))

execute(node, ctx, s) ==
  CASE node.node = "LiteralNode" -> LiteralNode_execute(node, ctx, s)
    [] node.node = "VariableReferenceNode" -> VariableReferenceNode_execute(node, ctx, s)
    [] node.node = "VariableDeclarationNode" -> VariableDeclarationNode_execute(node, ctx, s)
    [] node.node = "AssignmentNode" -> AssignmentNode_execute(node, ctx, s)
    [] node.node = "ReturnNode" -> ReturnNode_execute(node, ctx, s)
    [] node.node = "BreakNode" -> BreakNode_execute(node, ctx, s)
    [] node.node = "ContinueNode" -> ContinueNode_execute(node, ctx, s)
    [] node.node = "ErrorNode" -> ErrorNode_execute(node, ctx, s)
    [] node.node = "FunctionLiteralNode" -> FunctionLiteralNode_execute(node, ctx, s)
    [] node.node = "ArrowFunctionNode" -> ArrowFunctionNode_execute(node, ctx, s)
    [] node.node = "FunctionCallNode" -> FunctionCallNode_execute(node, ctx, s)
    [] node.node = "OperatorNode" -> OperatorNode_execute(node, ctx, s)
    [] node.node = "MethodCallNode" -> MethodCallNode_execute(node, ctx, s)
    [] node.node = "ArrayLiteralNode" -> ArrayLiteralNode_execute(node, ctx, s)
    [] node.node = "BlockNode" -> BlockNode_execute(node, ctx, s)
    [] node.node = "IfNode" -> IfNode_execute(node, ctx, s)
    [] node.node = "SignalNode" -> SignalNode_execute(node, ctx, s)
    [] node.node = "WhileNode" -> WhileNode_execute(node, ctx, s)
    [] node.node = "ForNode" -> ForNode_execute(node, ctx, s)
    [] node.node = "SwitchNode" -> SwitchNode_execute(node, ctx, s)
    [] node.node = "DoWhileNode" -> DoWhileNode_execute(node, ctx, s)
    [] node.node = "ForEachNode" -> ForEachNode_execute(node, ctx, s)
    [] node.node = "TryCatchNode" -> TryCatchNode_execute(node, ctx, s)

---------------------------------------------------------------------------
(* Type inference: the inferType methods.  A Type is a record whose field  *)
(* kind is the primitive type's name, or "array" (with elementType),       *)
(* "function" (with paramTypes and returnType) or "object" (with           *)
(* properties, a sequence of [key, type] in their order).  A               *)
(* TypeEnvironment is an index into a sequence of [parent, types]; parent  *)
(* 0 is no parent.  An inference gives                                     *)
(* [k, v, msg, env]: k "normal" with the type v, or k "Error" with the     *)
(* message msg, and the environments as they are left.                     *)

TypeName(name) == [kind |-> name]
AnyType == TypeName("any")
ArrayType(elementType) == [kind |-> "array", elementType |-> elementType]
FunctionType(paramTypes, returnType) ==
  [kind |-> "function", paramTypes |-> paramTypes, returnType |-> returnType]
ObjectType(properties) == [kind |-> "object", properties |-> properties]

\* typeof t === "string"
IsTypeName(t) == t.kind \notin {"array", "function", "object"}

\* compareTypes as it would be if "any" were compatible with every type.
RECURSIVE compareTypes_any(_, _)
compareTypes_any(a, b) ==
  IF a.kind = "any" \/ b.kind = "any" THEN TRUE
  ELSE IF IsTypeName(a) /\ IsTypeName(b) THEN a.kind = b.kind
  ELSE IF ~IsTypeName(a) /\ ~IsTypeName(b)
  THEN IF a.kind = "function" /\ b.kind = "function"
       THEN /\ Len(a.paramTypes) = Len(b.paramTypes)
            /\ \A i \in 1..Len(a.paramTypes) :
                 compareTypes_any(a.paramTypes[i], b.paramTypes[i])
            /\ compareTypes_any(a.returnType, b.returnType)
       ELSE IF a.kind = "array" /\ b.kind = "array"
       THEN compareTypes_any(a.elementType, b.elementType)
       ELSE IF a.kind = "object" /\ b.kind = "object"
       THEN /\ Len(a.properties) = Len(b.properties)
            /\ \A i \in 1..Len(a.properties) :
                 \E k \in 1..Len(b.properties) :
                   /\ b.properties[k].key = a.properties[i].key
                   /\ compareTypes_any(a.properties[i].type, b.properties[k].type)
       ELSE FALSE
  ELSE FALSE

RECURSIVE compareTypes(_, _)
compareTypes(a, b) ==
  IF IsTypeName(a) /\ IsTypeName(b) THEN a.kind = b.kind
  ELSE IF ~IsTypeName(a) /\ ~IsTypeName(b)
  THEN IF a.kind = "function" /\ b.kind = "function"
       THEN /\ Len(a.paramTypes) = Len(b.paramTypes)
            /\ \A i \in 1..Len(a.paramTypes) :
                 compareTypes(a.paramTypes[i], b.paramTypes[i])
            /\ compareTypes(a.returnType, b.returnType)
       ELSE IF a.kind = "array" /\ b.kind = "array"
       THEN compareTypes(a.elementType, b.elementType)
       ELSE IF a.kind = "object" /\ b.kind = "object"
       THEN /\ Len(a.properties) = Len(b.properties)
            /\ \A i \in 1..Len(a.properties) :
                 \E k \in 1..Len(b.properties) :
                   /\ b.properties[k].key = a.properties[i].key
                   /\ compareTypes(a.properties[i].type, b.properties[k].type)
       ELSE FALSE
  ELSE FALSE

RECURSIVE typeToString(_)
\* ts.map(typeToString).join(", ") from the i-th on
RECURSIVE typesToString(_, _)
\* the entries "key: type" of the properties, joined by ", ", from the i-th on
RECURSIVE propertiesToString(_, _)
propertiesToString(ps, i) ==
  IF i > Len(ps) THEN ""
  ELSE ps[i].key \o ": " \o typeToString(ps[i].type)
       \o (IF i < Len(ps) THEN ", " ELSE "") \o propertiesToString(ps, i + 1)
typesToString(ts, i) ==
  IF i > Len(ts) THEN ""
  ELSE typeToString(ts[i]) \o (IF i < Len(ts) THEN ", " ELSE "") \o typesToString(ts, i + 1)
typeToString(t) ==
  IF IsTypeName(t) THEN t.kind
  ELSE IF t.kind = "function"
  THEN "(" \o typesToString(t.paramTypes, 1) \o ") => " \o typeToString(t.returnType)
  ELSE IF t.kind = "array" THEN "Array<" \o typeToString(t.elementType) \o ">"
  ELSE "{ " \o propertiesToString(t.properties, 1) \o " }"

InferOk(type, e) == [k |-> "normal", v |-> type, msg |-> "", env |-> e]
InferError(message, e) == [k |-> "Error", v |-> AnyType, msg |-> message, env |-> e]

\* new TypeEnvironment(parent)
NewTypeEnvironment(e, parent) == Append(e, [parent |-> parent, types |-> <<>>])

RECURSIVE getType(_, _, _)
getType(e, env, name) ==
  IF name \in DOMAIN e[env].types THEN InferOk(e[env].types[name], e)
  ELSE IF e[env].parent # 0 THEN getType(e, e[env].parent, name)
  ELSE InferError("Undefined variable (type): " \o name, e)

setType(e, env, name, type) ==
  [e EXCEPT ![env].types =
     [x \in DOMAIN @ \cup {name} |-> IF x = name THEN type ELSE @[x]]]

RECURSIVE inferType(_, _, _)

LiteralNode_inferType(node, env, e) ==
  LET v == node.value
  IN IF v.t = "null" THEN InferOk(TypeName("null"), e)
     ELSE IF TypeOf(v) \in {"number", "string", "boolean", "undefined"}
     THEN InferOk(TypeName(TypeOf(v)), e)
     ELSE InferOk(AnyType, e)

VariableReferenceNode_inferType(node, env, e) == getType(e, env, node.name)

\* The keys of typeMap in VariableDeclarationNode.inferType, and its value
\* under a key.
typeMapKeys == {"n_", "s_", "b_", "u_", "l_", "x_", "a_", "o_", "f_"}
typeMap(key, actualType) ==
  CASE key = "n_" -> TypeName("number")
    [] key = "s_" -> TypeName("string")
    [] key = "b_" -> TypeName("boolean")
    [] key = "u_" -> TypeName("undefined")
    [] key = "l_" -> TypeName("null")
    [] key = "x_" -> TypeName("bigint")
    [] key \in {"a_", "o_", "f_"} -> actualType

VariableDeclarationNode_inferType(node, env, e) ==
  LET a == inferType(node.expression, env, e)
  IN IF a.k # "normal" THEN a
     ELSE IF node.varType \notin typeMapKeys
     THEN InferError("Unsupported variable type: " \o node.varType, a.env)
     ELSE IF ~compareTypes(a.v, typeMap(node.varType, a.v))
     THEN InferError("Type mismatch in declaration of '" \o node.name
                     \o "': expected " \o typeToString(typeMap(node.varType, a.v))
                     \o ", got " \o typeToString(a.v), a.env)
     ELSE InferOk(a.v, setType(a.env, env, node.name, a.v))

\* The switch over this.operator of OperatorNode.inferType.
inferOperator(op, leftType, rightType, e) ==
  CASE op \in {"o_plus", "o_minus", "o_mul", "o_div", "o_idiv", "o_pow"} ->
         IF leftType.kind # "number" \/ rightType.kind # "number"
         THEN InferError(op \o " requires numeric operands.", e)
         ELSE InferOk(TypeName("number"), e)
    [] op \in {"o_eq", "o_neq", "o_lt", "o_lte", "o_gt", "o_gte"} ->
         IF ~compareTypes(leftType, rightType)
         THEN InferError(op \o " requires operands of same type.", e)
         ELSE InferOk(TypeName("boolean"), e)
    [] op \in {"o_and", "o_or"} ->
         IF leftType.kind # "boolean" \/ rightType.kind # "boolean"
         THEN InferError(op \o " requires boolean operands.", e)
         ELSE InferOk(TypeName("boolean"), e)
    [] op = "o_concat" ->
         IF ~IsTypeName(leftType) /\ ~IsTypeName(rightType)
         THEN IF leftType.kind # "array" \/ rightType.kind # "array"
              THEN InferError("Operator 'concat' requires both operands to be arrays.", e)
              ELSE InferOk(ArrayType(IF compareTypes(leftType.elementType,
                                                     rightType.elementType)
                                     THEN leftType.elementType ELSE AnyType), e)
         ELSE InferError("Operator 'concat' requires both operands to be arrays.", e)
    [] OTHER -> InferError("Unknown operator in type inference: " \o op, e)

OperatorNode_inferType(node, env, e) ==
  LET l == inferType(node.operands[1], env, e)
  IN IF l.k # "normal" THEN l
     ELSE LET r == inferType(node.operands[2], env, l.env)
          IN IF r.k # "normal" THEN r
             ELSE inferOperator(node.operator, l.v, r.v, r.env)

\* The loop of ArrayLiteralNode.inferType over the elements from i on.
RECURSIVE ArrayLiteralNode_elementType(_, _, _, _, _)
ArrayLiteralNode_elementType(elements, i, env, e, elementType) ==
  IF i > Len(elements) THEN InferOk(elementType, e)
  ELSE LET c == inferType(elements[i], env, e)
       IN IF c.k # "normal" THEN c
          ELSE IF ~compareTypes(elementType, c.v) THEN InferOk(AnyType, c.env)
          ELSE ArrayLiteralNode_elementType(elements, i + 1, env, c.env, elementType)

ArrayLiteralNode_inferType(node, env, e) ==
  IF Len(node.elements) = 0 THEN InferOk(ArrayType(AnyType), e)
  ELSE LET first == inferType(node.elements[1], env, e)
       IN IF first.k # "normal" THEN first
          ELSE LET t == ArrayLiteralNode_elementType(node.elements, 2, env,
                                                     first.env, first.v)
               IN IF t.k # "normal" THEN t ELSE InferOk(ArrayType(t.v), t.env)

\* env.createChild(); the new environment is the last of the result.
createChild(e, env) == NewTypeEnvironment(e, env)

ReturnNode_inferType(node, env, e) == inferType(node.expression, env, e)

\* for (const stmt of stmts) { type = stmt.inferType(env); } from statement
\* i on; type is the variable's value so far.
RECURSIVE inferStatements(_, _, _, _, _)
inferStatements(stmts, i, env, e, type) ==
  IF i > Len(stmts) THEN InferOk(type, e)
  ELSE LET r == inferType(stmts[i], env, e)
       IN IF r.k # "normal" THEN r
          ELSE inferStatements(stmts, i + 1, env, r.env, r.v)

\* (this.declaredParamTypes || []).forEach((pt, i) => localEnv.setType(
\* this.params[i], pt)) from the i-th on; a params[i] that is not there is
\* the key "undefined".
RECURSIVE setParamTypes(_, _, _, _)
setParamTypes(node, i, localEnv, e) ==
  IF i > Len(node.declaredParamTypes) THEN e
  ELSE setParamTypes(node, i + 1, localEnv,
                     setType(e, localEnv,
                             IF i <= Len(node.params) THEN node.params[i] ELSE "undefined",
                             node.declaredParamTypes[i]))

FunctionLiteralNode_inferType(node, env, e) ==
  LET e1 == createChild(e, env)
      localEnv == Len(e1)
      paramTypes == node.declaredParamTypes
      b == inferStatements(node.body, 1, localEnv,
                           setParamTypes(node, 1, localEnv, e1), TypeName("void"))
  IN IF b.k # "normal" THEN b
     ELSE IF node.hasReturnType /\ ~compareTypes(b.v, node.declaredReturnType)
     THEN InferError("Return type mismatch: expected "
                     \o typeToString(node.declaredReturnType)
                     \o ", got " \o typeToString(b.v), b.env)
     ELSE LET type == FunctionType(paramTypes,
                                   IF node.hasReturnType THEN node.declaredReturnType
                                   ELSE b.v)
          IN InferOk(type, IF node.name # "" THEN setType(b.env, env, node.name, type)
                           ELSE b.env)

\* node.inferType(env), for the classes whose inference is modelled.
inferType(node, env, e) ==
  CASE node.node = "LiteralNode" -> LiteralNode_inferType(node, env, e)
    [] node.node = "VariableReferenceNode" -> VariableReferenceNode_inferType(node, env, e)
    [] node.node = "VariableDeclarationNode" -> VariableDeclarationNode_inferType(node, env, e)
    [] node.node = "OperatorNode" -> OperatorNode_inferType(node, env, e)
    [] node.node = "ArrayLiteralNode" -> ArrayLiteralNode_inferType(node, env, e)
    [] node.node = "ReturnNode" -> ReturnNode_inferType(node, env, e)
    [] node.node = "FunctionLiteralNode" -> FunctionLiteralNode_inferType(node, env, e)

---------------------------------------------------------------------------
(* The programs the interpreter is run on.  A scenario is a record         *)
(* [family, kinds, kind, sig, n, at, a1, a2, body]; Program builds its     *)
(* top-level nodes.  print(i) with a number i marks a place of a program:  *)
(* the console then tells which statements were executed, and in which     *)
(* order.                                                                  *)

Lit(i) == LiteralNode(Num(i))
Ref(name) == VariableReferenceNode(name)
Say(expression) == FunctionCallNode("print", <<expression>>)
Mark(i) == Say(Lit(i))
LengthOf(name) == MethodCallNode(Ref(name), "length", <<>>)
PushTo(name) == MethodCallNode(Ref(name), "push", <<Lit(0)>>)

\* The places a statement list can stand in: the body of each of the eight
\* scoping constructs, and the else branch, the default case and the catch
\* block.
Constructs ==
  {"BlockNode", "IfNode", "IfElse", "WhileNode", "DoWhileNode", "ForNode",
   "ForEachNode", "SwitchNode", "SwitchDefault", "TryCatchNode", "Catch"}

\* A node of the kind that executes `body` once (when body ends normally).
\* Marks 98 and 99 stand where control must not come.
Wrap(kind, body) ==
  CASE kind = "BlockNode" -> BlockNode(body)
    [] kind = "IfNode" -> IfNode(LiteralNode(Bool(TRUE)), body, <<>>)
    [] kind = "IfElse" -> IfNode(LiteralNode(Bool(FALSE)), <<Mark(98)>>, body)
    [] kind = "WhileNode" -> WhileNode(LiteralNode(Bool(TRUE)), body \o <<BreakNode>>)
    [] kind = "DoWhileNode" -> DoWhileNode(body, LiteralNode(Bool(FALSE)))
    [] kind = "ForNode" ->
         ForNode(VariableDeclarationNode("number", "i", Lit(0)),
                 OperatorNode("<", Ref("i"), Lit(1)),
                 AssignmentNode("i", OperatorNode("+", Ref("i"), Lit(1))),
                 body)
    [] kind = "ForEachNode" -> ForEachNode("it", ArrayLiteralNode(<<Lit(1)>>), body)
    [] kind = "SwitchNode" ->
         SwitchNode(Lit(1), <<[match |-> Lit(1), body |-> body]>>, FALSE, <<>>)
    [] kind = "SwitchDefault" ->
         SwitchNode(Lit(2), <<[match |-> Lit(1), body |-> <<Mark(98)>>]>>, TRUE, body)
    [] kind = "Call" ->
         FunctionCallNode("run", <<FunctionLiteralNode("", <<>>, body, FALSE)>>)
    [] kind = "TryCatchNode" -> TryCatchNode(body, "e", <<Mark(99)>>)
    [] kind = "Catch" ->
         TryCatchNode(<<ErrorNode(LiteralNode(Str("inner")))>>, "e", body)

\* core inside kinds[i], inside kinds[i-1], ...; with marks, level i prints
\* 10 + i before and 90 + i after what it holds.
RECURSIVE Nest(_, _, _, _)
Nest(kinds, i, core, marks) ==
  IF i > Len(kinds) THEN core
  ELSE <<Wrap(kinds[i],
              (IF marks THEN <<Mark(10 + i)>> ELSE <<>>)
              \o Nest(kinds, i + 1, core, marks)
              \o (IF marks THEN <<Mark(90 + i)>> ELSE <<>>))>>

KindSeqs(kinds, lo, hi) == UNION {[1..d -> kinds] : d \in lo..hi}

Scenario(family, kinds, kind, sig, n, at, a1, a2, body) ==
  [family |-> family, kinds |-> kinds, kind |-> kind, sig |-> sig, n |-> n,
   at |-> at, a1 |-> a1, a2 |-> a2, body |-> body]

\* The statement that raises sig.
Raise(sig) ==
  CASE sig = "ReturnSignal" -> <<ReturnNode(Lit(7))>>
    [] sig = "BreakSignal" -> <<BreakNode>>
    [] sig = "ContinueSignal" -> <<ContinueNode>>
    [] sig = "Error" -> <<ErrorNode(LiteralNode(Str("boom")))>>
    [] sig = "Undefined variable" -> <<Ref("nowhere")>>
    [] OTHER -> <<>>

\* family "return": a Return nested in kinds inside the function f, called
\* from the try block of a TryCatch.
ReturnScenarios ==
  {Scenario("return", ks, "", "ReturnSignal", 0, 0, 0, 0, "") : ks \in KindSeqs(Constructs, 1, MaxDepth)}
ReturnProgram(sc) ==
  <<VariableDeclarationNode("function", "f",
      FunctionLiteralNode("f", <<>>,
        <<Mark(1)>> \o Nest(sc.kinds, 1, Raise(sc.sig) \o <<Mark(90)>>, TRUE)
        \o <<Mark(97)>>, FALSE)),
    VariableDeclarationNode("number", "r",
      TryCatchNode(<<FunctionCallNode("f", <<>>)>>, "e", <<Mark(99), Lit(0)>>)),
    Say(Ref("r"))>>

\* The statements of one pass of a loop body of the families "while" and
\* "loop": print the pass number j, raise sc.sig (in pass sc.at, or in every
\* pass when the signal stands directly in the body), print 100 + j.
Pass(sc, j) ==
  <<Say(j)>>
  \o (IF sc.body = "if"
      THEN <<IfNode(OperatorNode("==", j, Lit(sc.at)), Raise(sc.sig), <<>>)>>
      ELSE Raise(sc.sig))
  \o <<Say(OperatorNode("+", Lit(100), j))>>

\* The choices of (n, at, body): n passes, the signal in pass at.
Passes ==
  UNION {{[n |-> n, at |-> at, body |-> "if"] : at \in 1..n}
         \cup {[n |-> n, at |-> 1, body |-> "direct"]} : n \in 1..MaxCount}

\* family "while": a While at top level whose condition prints 0 each time
\* it is evaluated; the array a counts the passes.
WhileScenarios ==
  {Scenario("while", <<>>, "WhileNode", sig, p.n, p.at, 0, 0, p.body) :
     sig \in {"BreakSignal", "ContinueSignal"}, p \in Passes}
WhileProgram(sc) ==
  <<VariableDeclarationNode("array", "a", ArrayLiteralNode(<<>>)),
    VariableDeclarationNode("function", "check",
      FunctionLiteralNode("check", <<>>,
        <<Mark(0), ReturnNode(OperatorNode("<", LengthOf("a"), Lit(sc.n)))>>, FALSE)),
    WhileNode(FunctionCallNode("check", <<>>),
              <<PushTo("a")>> \o Pass(sc, LengthOf("a"))),
    Mark(70)>>

\* family "loop": a loop of sc.kind inside the function f, called from the
\* try block of a TryCatch.
LoopKinds == {"WhileNode", "DoWhileNode", "ForNode", "ForEachNode"}
LoopNode(sc) ==
  CASE sc.kind = "WhileNode" ->
         WhileNode(OperatorNode("<", LengthOf("a"), Lit(sc.n)),
                   <<PushTo("a")>> \o Pass(sc, LengthOf("a")))
    [] sc.kind = "DoWhileNode" ->
         DoWhileNode(<<PushTo("a")>> \o Pass(sc, LengthOf("a")),
                     OperatorNode("<", LengthOf("a"), Lit(sc.n)))
    [] sc.kind = "ForNode" ->
         ForNode(VariableDeclarationNode("number", "j", Lit(1)),
                 OperatorNode("<=", Ref("j"), Lit(sc.n)),
                 AssignmentNode("j", OperatorNode("+", Ref("j"), Lit(1))),
                 Pass(sc, Ref("j")))
    [] sc.kind = "ForEachNode" ->
         ForEachNode("j", ArrayLiteralNode([i \in 1..sc.n |-> Lit(i)]),
                     Pass(sc, Ref("j")))
LoopScenarios ==
  {Scenario("loop", <<>>, kind, sig, p.n, p.at, 0, 0, p.body) :
     kind \in LoopKinds,
     sig \in {"BreakSignal", "ContinueSignal", "ReturnSignal", "Error",
              "Undefined variable"},
     p \in Passes}
LoopProgram(sc) ==
  <<VariableDeclarationNode("function", "f",
      FunctionLiteralNode("f", <<>>,
        <<VariableDeclarationNode("array", "a", ArrayLiteralNode(<<>>)),
          LoopNode(sc), Mark(50)>>, FALSE)),
    TryCatchNode(<<Say(FunctionCallNode("f", <<>>))>>, "e",
                 <<Mark(60), Say(Ref("e"))>>),
    Mark(70)>>

\* family "trycatch": a TryCatch at top level whose try block raises sc.sig,
\* directly or inside one construct that lets it pass.
TryCatchScenarios ==
  {Scenario("trycatch", ks, "TryCatchNode", sig, 0, 0, 0, 0, "") :
     ks \in {<<>>, <<"BlockNode">>, <<"IfNode">>, <<"IfElse">>, <<"SwitchNode">>,
             <<"SwitchDefault">>},
     sig \in {"Error", "Undefined variable", "ReturnSignal", "BreakSignal",
              "ContinueSignal", "none"}}
TryCatchProgram(sc) ==
  <<VariableDeclarationNode("number", "x", Lit(1)),
    Say(TryCatchNode(
          <<VariableDeclarationNode("number", "t", Lit(5)), Mark(20)>>
          \o Nest(sc.kinds, 1, Raise(sc.sig), FALSE) \o <<Mark(91), Lit(22)>>,
          "e", <<Mark(60), Say(Ref("e")), Say(Ref("x")), Lit(33)>>)),
    Mark(70)>>

\* family "memo": the closure of the pure function f called twice, with the
\* argument expressions ArgExprs[sc.a1] and ArgExprs[sc.a2]; f prints 5 and
\* then returns its argument, ends without a Return, or raises an error.
ArgExprs ==
  <<Lit(1), OperatorNode("-", Lit(2), Lit(1)), Lit(2), LiteralNode(Str("1")),
    LiteralNode(Null), LiteralNode(Undefined), LiteralNode(NaNValue),
    LiteralNode(Bool(TRUE)), Ref("g"), Ref("h"),
    ArrayLiteralNode(<<Lit(1)>>), ArrayLiteralNode(<<LiteralNode(Undefined)>>),
    ArrayLiteralNode(<<LiteralNode(Null)>>)>>
MemoBodies == {"value", "undefined", "error"}
MemoBody(body) ==
  CASE body = "value" -> <<Mark(5), ReturnNode(Ref("x"))>>
    [] body = "undefined" -> <<Mark(5)>>
    [] body = "error" -> <<Mark(5), ErrorNode(LiteralNode(Str("boom")))>>
MemoScenarios ==
  {Scenario("memo", <<>>, "", "", 0, 0, a1, a2, body) :
     a1 \in 1..Len(ArgExprs), a2 \in 1..Len(ArgExprs), body \in MemoBodies}
MemoProgram(sc) ==
  <<VariableDeclarationNode("function", "g", FunctionLiteralNode("g", <<>>, <<>>, FALSE)),
    VariableDeclarationNode("function", "h", FunctionLiteralNode("h", <<>>, <<>>, FALSE)),
    VariableDeclarationNode("function", "f",
      FunctionLiteralNode("f", <<"x">>, MemoBody(sc.body), TRUE)),
    TryCatchNode(<<Say(FunctionCallNode("f", <<ArgExprs[sc.a1]>>))>>, "e", <<Mark(60)>>),
    TryCatchNode(<<Say(FunctionCallNode("f", <<ArgExprs[sc.a2]>>))>>, "e", <<Mark(60)>>),
    Mark(70)>>

\* family "scope": x is bound at top level; inside sc.kinds a body declares v,
\* assigns x and prints it; x is printed again at top level afterwards.
\* "Call" is the body of a function literal, called through run.
ScopeScenarios ==
  {Scenario("scope", ks, "", "", 0, 0, 0, 0, "") :
     ks \in KindSeqs(Constructs \cup {"Call"}, 1, MaxDepth)}
ScopeProgram(sc) ==
  <<VariableDeclarationNode("number", "x", Lit(1)),
    VariableDeclarationNode("function", "run",
      ArrowFunctionNode(<<"g">>, FunctionCallNode("g", <<>>)))>>
  \o Nest(sc.kinds, 1,
          <<VariableDeclarationNode("number", "v", Lit(5)),
            AssignmentNode("x", Lit(2)), Say(Ref("x"))>>, FALSE)
  \o <<Say(Ref("x"))>>

\* family "assign": an Assignment to y, bound nowhere, at top level or
\* inside one construct.
AssignScenarios ==
  {Scenario("assign", ks, "", "", 0, 0, 0, 0, "") : ks \in KindSeqs(Constructs, 0, 1)}
AssignProgram(sc) ==
  Nest(sc.kinds, 1, <<AssignmentNode("y", Lit(3)), Say(Ref("y"))>>, FALSE)
  \o <<Mark(70)>>

\* family "cond": a construct of sc.kind whose condition is the literal
\* CondValues[sc.a1]; its body counts its passes in a, prints the count and
\* breaks in the second pass.
CondValues ==
  <<Num(1), Num(0), Str("a"), Str(""), Null, Undefined, NaNValue,
    Bool(TRUE), Bool(FALSE)>>
CondKinds == {"IfNode", "WhileNode", "ForNode", "DoWhileNode"}
CondBody ==
  <<PushTo("a"), Say(LengthOf("a")),
    IfNode(OperatorNode("==", LengthOf("a"), Lit(2)), <<BreakNode>>, <<>>)>>
CondNode(kind, condition) ==
  CASE kind = "IfNode" -> IfNode(condition, CondBody, <<Mark(30)>>)
    [] kind = "WhileNode" -> WhileNode(condition, CondBody)
    [] kind = "ForNode" -> ForNode(Lit(0), condition, Lit(0), CondBody)
    [] kind = "DoWhileNode" -> DoWhileNode(CondBody, condition)
CondScenarios ==
  {Scenario("cond", <<>>, kind, "", 0, 0, a1, 0, "") :
     kind \in CondKinds, a1 \in 1..Len(CondValues)}
CondProgram(sc) ==
  <<VariableDeclarationNode("array", "a", ArrayLiteralNode(<<>>)),
    CondNode(sc.kind, LiteralNode(CondValues[sc.a1])),
    Mark(70)>>

\* family "builtin": the built-in name BuiltInRebound[sc.a1] is bound to 5
\* at top level and then printed inside sc.kinds and again at top level.
BuiltInRebound == <<"abs", "floor">>
BuiltInScenarios ==
  {Scenario("builtin", ks, "", "", 0, 0, a1, 0, "") :
     ks \in KindSeqs(Constructs \cup {"Call"}, 1, 1), a1 \in 1..Len(BuiltInRebound)}
BuiltInProgram(sc) ==
  <<VariableDeclarationNode("number", BuiltInRebound[sc.a1], Lit(5)),
    VariableDeclarationNode("function", "run",
      ArrowFunctionNode(<<"g">>, FunctionCallNode("g", <<>>)))>>
  \o Nest(sc.kinds, 1, <<Say(Ref(BuiltInRebound[sc.a1]))>>, FALSE)
  \o <<Say(Ref(BuiltInRebound[sc.a1]))>>

\* family "closure": the function f(p, q) is called with (3, 4) inside
\* sc.kinds; with sc.a2 = 1 the declaration of f and the call stand in a
\* Block, which is then the capturing context.
ClosureBodies == {"last", "declare", "return", "empty"}
ClosureBody(body) ==
  CASE body = "last" -> <<Say(Ref("p")), Say(Ref("q")), Lit(9)>>
    [] body = "declare" ->
         <<Say(Ref("p")), Say(Ref("q")), VariableDeclarationNode("number", "v", Lit(9))>>
    [] body = "return" ->
         <<Say(Ref("p")),
           ReturnNode(OperatorNode("+", OperatorNode("*", Ref("p"), Lit(10)), Ref("q"))),
           Say(Ref("q"))>>
    [] body = "empty" -> <<>>
ClosureScenarios ==
  {Scenario("closure", ks, "", "", 0, 0, 0, a2, body) :
     ks \in KindSeqs(Constructs, 0, 1), a2 \in {0, 1}, body \in ClosureBodies}
ClosureProgram(sc) ==
  LET statements ==
        <<VariableDeclarationNode("function", "f",
            FunctionLiteralNode("f", <<"p", "q">>, ClosureBody(sc.body), FALSE))>>
        \o Nest(sc.kinds, 1, <<Say(FunctionCallNode("f", <<Lit(3), Lit(4)>>))>>, FALSE)
  IN (IF sc.a2 = 1 THEN <<BlockNode(statements)>> ELSE statements) \o <<Mark(70)>>

\* family "driver": three top-level nodes; node i prints i and binds
\* DriverNames[i] to what print returned, but node sc.at, which raises
\* sc.sig, directly or inside sc.kinds.
DriverNames == <<"m1", "m2", "m3">>
DriverScenarios ==
  {Scenario("driver", ks, "", sig, 0, at, 0, 0, "") :
     ks \in {<<>>, <<"BlockNode">>, <<"IfNode">>, <<"SwitchDefault">>},
     sig \in {"Error", "Undefined variable", "ReturnSignal", "BreakSignal",
              "ContinueSignal", "none"},
     at \in 1..Len(DriverNames)}
DriverProgram(sc) ==
  [i \in 1..Len(DriverNames) |->
     IF i = sc.at THEN BlockNode(Nest(sc.kinds, 1, Raise(sc.sig), FALSE))
     ELSE VariableDeclarationNode("undefined", DriverNames[i], Say(Lit(i)))]

\* family "operator": print(l() sc.kind r()) in a try block, where l prints 1
\* and returns OperandValues[sc.a1] or raises sc.sig, and r prints 2 and
\* returns OperandValues[sc.a2].
Operators ==
  {"+", "-", "*", "/", "//", "^", "==", "!==", "<", "<=", ">", ">=", "&&", "||",
   "concat", "><", "?"}
OperandValues == <<Bool(TRUE), Bool(FALSE), Num(2)>>
OperatorScenarios ==
  {Scenario("operator", <<>>, op, sig, 0, 0, a1, a2, "") :
     op \in Operators, sig \in {"none", "Error"},
     a1 \in 1..Len(OperandValues), a2 \in 1..Len(OperandValues)}
OperatorProgram(sc) ==
  <<VariableDeclarationNode("function", "l",
      FunctionLiteralNode("l", <<>>,
        <<Mark(1)>> \o Raise(sc.sig)
        \o <<ReturnNode(LiteralNode(OperandValues[sc.a1]))>>, FALSE)),
    VariableDeclarationNode("function", "r",
      FunctionLiteralNode("r", <<>>,
        <<Mark(2), ReturnNode(LiteralNode(OperandValues[sc.a2]))>>, FALSE)),
    TryCatchNode(
      <<Say(OperatorNode(sc.kind, FunctionCallNode("l", <<>>),
                         FunctionCallNode("r", <<>>)))>>,
      "e", <<Mark(60)>>),
    Mark(70)>>

\* family "twice": one function node, TwiceNode, converted to a closure
\* twice.  It maps n to n + j, j being free in it; a function literal
\* prints 5 first.  With body "args" it is both arguments of one call, with
\* body "nested" it is declared as g where j is 10 and as h where j is 20.
TwiceKinds == {"pure", "plain", "arrow"}
TwiceNode(kind) ==
  IF kind = "arrow"
  THEN ArrowFunctionNode(<<"n">>, OperatorNode("+", Ref("n"), Ref("j")))
  ELSE FunctionLiteralNode("", <<"n">>,
         <<Mark(5), ReturnNode(OperatorNode("+", Ref("n"), Ref("j")))>>,
         kind = "pure")
\* (an arrow function among the arguments of a call is executed, not
\* converted: it is left out of body "args")
TwiceScenarios ==
  {sc \in {Scenario("twice", ks, kind, "", 0, 0, 0, 0, body) :
             ks \in KindSeqs(Constructs, 0, 1), kind \in TwiceKinds,
             body \in {"args", "nested"}} :
     ~(sc.kind = "arrow" /\ sc.body = "args")}
TwiceProgram(sc) ==
  Nest(sc.kinds, 1,
       <<VariableDeclarationNode("number", "j", Lit(10))>>
       \o (IF sc.body = "args"
           THEN <<VariableDeclarationNode("function", "both",
                    FunctionLiteralNode("both", <<"g", "h">>,
                      <<Say(FunctionCallNode("g", <<Lit(1)>>)),
                        Say(FunctionCallNode("h", <<Lit(1)>>)),
                        Say(FunctionCallNode("g", <<Lit(1)>>)),
                        Say(FunctionCallNode("h", <<Lit(2)>>))>>, FALSE)),
                  FunctionCallNode("both", <<TwiceNode(sc.kind), TwiceNode(sc.kind)>>)>>
           ELSE <<VariableDeclarationNode("function", "g", TwiceNode(sc.kind)),
                  VariableDeclarationNode("function", "outer",
                    FunctionLiteralNode("outer", <<"g">>,
                      <<VariableDeclarationNode("number", "j", Lit(20)),
                        VariableDeclarationNode("function", "h", TwiceNode(sc.kind)),
                        Say(FunctionCallNode("g", <<Lit(1)>>)),
                        Say(FunctionCallNode("h", <<Lit(1)>>)),
                        Say(FunctionCallNode("g", <<Lit(1)>>)),
                        Say(FunctionCallNode("h", <<Lit(2)>>))>>, FALSE)),
                  FunctionCallNode("outer", <<Ref("g")>>)>>),
       FALSE)
  \o <<Mark(70)>>

\* family "lexical": at top level x = 5, y = 1, double = (n) => n + n and
\* g = (n) => n + y, closures of kind sc.kind; print(double(x)); then, inside
\* sc.kinds, w = 0, y = 2, print(g(y)) and print(double(y)).
LexicalNode(kind, body) ==
  IF kind = "arrow" THEN ArrowFunctionNode(<<"n">>, body)
  ELSE FunctionLiteralNode("", <<"n">>, <<ReturnNode(body)>>, kind = "pure")
LexicalScenarios ==
  {Scenario("lexical", ks, kind, "", 0, 0, 0, 0, "") :
     ks \in KindSeqs(Constructs \cup {"Call"}, 1, 1), kind \in TwiceKinds}
LexicalProgram(sc) ==
  <<VariableDeclarationNode("number", "x", Lit(5)),
    VariableDeclarationNode("number", "y", Lit(1)),
    VariableDeclarationNode("function", "double",
      LexicalNode(sc.kind, OperatorNode("+", Ref("n"), Ref("n")))),
    VariableDeclarationNode("function", "g",
      LexicalNode(sc.kind, OperatorNode("+", Ref("n"), Ref("y")))),
    VariableDeclarationNode("function", "run",
      ArrowFunctionNode(<<"f">>, FunctionCallNode("f", <<>>))),
    Say(FunctionCallNode("double", <<Ref("x")>>))>>
  \o Nest(sc.kinds, 1,
          <<VariableDeclarationNode("number", "w", Lit(0)),
            VariableDeclarationNode("number", "y", Lit(2)),
            Say(FunctionCallNode("g", <<Ref("y")>>)),
            Say(FunctionCallNode("double", <<Ref("y")>>))>>, FALSE)
  \o <<Mark(70)>>

\* family "fundecl": function f = <initializer sc.body>, then print(50),
\* inside sc.kinds inside a try block whose catch block prints the error;
\* with sc.a2 = 1, f is the number 3 at top level before.  g is a closure,
\* so that the initializer Ref("g") would evaluate to a function.
Initializers ==
  {"print", "reference", "array", "FunctionLiteralNode", "ArrowFunctionNode"}
Initializer(body) ==
  CASE body = "print" -> Mark(1)
    [] body = "reference" -> Ref("g")
    [] body = "array" -> ArrayLiteralNode(<<Lit(8)>>)
    [] body = "FunctionLiteralNode" -> FunctionLiteralNode("f", <<>>, <<Mark(5)>>, FALSE)
    [] body = "ArrowFunctionNode" -> ArrowFunctionNode(<<>>, Mark(5))
FunDeclScenarios ==
  {Scenario("fundecl", ks, "", "", 0, 0, 0, a2, body) :
     ks \in KindSeqs(Constructs \ {"TryCatchNode"}, 0, 1), a2 \in {0, 1},
     body \in Initializers}
FunDeclProgram(sc) ==
  <<VariableDeclarationNode("function", "g", ArrowFunctionNode(<<>>, Lit(1)))>>
  \o (IF sc.a2 = 1 THEN <<VariableDeclarationNode("number", "f", Lit(3))>> ELSE <<>>)
  \o <<TryCatchNode(
         Nest(sc.kinds, 1,
              <<VariableDeclarationNode("function", "f", Initializer(sc.body)),
                Mark(50)>>, FALSE),
         "e", <<Say(Ref("e"))>>),
       Mark(70)>>

\* family "declare": <kind sc.kind> x = DeclaredInitializers[sc.a1]; x
DeclaredKinds == {"number", "string", "boolean", "null", "undefined", "array"}
DeclaredInitializers ==
  <<Lit(1), LiteralNode(Str("a")), LiteralNode(Bool(TRUE)), LiteralNode(Null),
    LiteralNode(Undefined), ArrayLiteralNode(<<Lit(1), Lit(2)>>),
    OperatorNode("><", LiteralNode(Str("a")), Lit(1)),
    OperatorNode("o_plus", Lit(1), Lit(1)), Ref("z")>>
DeclareScenarios ==
  {Scenario("declare", <<>>, kind, "", 0, 0, a1, 0, "") :
     kind \in DeclaredKinds, a1 \in 1..Len(DeclaredInitializers)}
DeclareProgram(sc) ==
  <<VariableDeclarationNode(sc.kind, "x", DeclaredInitializers[sc.a1]), Ref("x")>>

\* family "concat": ConcatOperands[sc.a1] sc.kind ConcatOperands[sc.a2], the
\* operator under its name at execution or under its name at inference.
ConcatOperands ==
  <<ArrayLiteralNode(<<Lit(1), Lit(2), Lit(3)>>),
    ArrayLiteralNode(<<LiteralNode(Str("a"))>>),
    ArrayLiteralNode(<<Lit(4)>>),
    ArrayLiteralNode(<<>>),
    Lit(1)>>
ConcatScenarios ==
  {Scenario("concat", <<>>, op, "", 0, 0, a1, a2, "") :
     op \in {"concat", "o_concat"},
     a1 \in 1..Len(ConcatOperands), a2 \in 1..Len(ConcatOperands)}
ConcatProgram(sc) ==
  <<OperatorNode(sc.kind, ConcatOperands[sc.a1], ConcatOperands[sc.a2])>>



\* family "switch": print(switch (c()) { case m1(): ... }), inside sc.kinds.
\* c prints 0 and returns SwitchValues[sc.a1]; the match of case i is a call
\* that prints i and returns SwitchMatches[i]; the body of case i prints
\* 10 + i and ends with the text SwitchTexts[i]; the default, there when
\* sc.a2 = 1, prints 19 and ends with "other".
SwitchValues == <<Num(1), Num(2), Num(5), Str("2"), Bool(TRUE), NaNValue>>
SwitchMatches == <<Num(1), Num(2), Num(2), Str("2"), NaNValue>>
SwitchTexts == <<"one", "two", "two again", "text", "nan">>
SwitchFunction(name, i, value) ==
  VariableDeclarationNode("function", name,
    FunctionLiteralNode(name, <<>>, <<Mark(i), ReturnNode(LiteralNode(value))>>, FALSE))
SwitchScenarios ==
  {Scenario("switch", ks, "", "", 0, 0, a1, a2, "") :
     ks \in KindSeqs(Constructs, 0, 1), a1 \in 1..Len(SwitchValues), a2 \in {0, 1}}
SwitchProgram(sc) ==
  <<SwitchFunction("c", 0, SwitchValues[sc.a1])>>
  \o [i \in 1..Len(SwitchMatches) |->
        SwitchFunction("m" \o ToString(i), i, SwitchMatches[i])]
  \o Nest(sc.kinds, 1,
          <<Say(SwitchNode(
                  FunctionCallNode("c", <<>>),
                  [i \in 1..Len(SwitchMatches) |->
                     [match |-> FunctionCallNode("m" \o ToString(i), <<>>),
                      body |-> <<Mark(10 + i), LiteralNode(Str(SwitchTexts[i]))>>]],
                  sc.a2 = 1,
                  IF sc.a2 = 1 THEN <<Mark(19), LiteralNode(Str("other"))>> ELSE <<>>))>>,
          FALSE)
  \o <<Mark(70)>>

\* family "parameters": one function literal of the sc.a1 first of
\* ParameterNames, the sc.n first of them with their ParameterTypes
\* declared, named sc.kind, with the return type number declared when
\* sc.a2 = 1.  Its body is a literal, or references every parameter and
\* returns the last one.
ParameterNames == <<"p", "q">>
ParameterTypes == <<TypeName("number"), TypeName("string")>>
ParametersBody(sc) ==
  IF sc.body = "literal" \/ sc.a1 = 0 THEN <<Lit(1)>>
  ELSE [i \in 1..sc.a1 |-> Ref(ParameterNames[i])]
       \o <<ReturnNode(Ref(ParameterNames[sc.a1]))>>
ParametersScenarios ==
  {Scenario("parameters", <<>>, name, "", n, 0, a1, a2, body) :
     name \in {"f", ""}, a1 \in 0..Len(ParameterNames), n \in 0..Len(ParameterNames),
     a2 \in {0, 1}, body \in {"literal", "references"}}
ParametersProgram(sc) ==
  <<FunctionLiteralNode_typed(sc.kind, SubSeq(ParameterNames, 1, sc.a1),
                              ParametersBody(sc), SubSeq(ParameterTypes, 1, sc.n),
                              sc.a2 = 1, TypeName("number"), FALSE)>>

\* family "signal": a loop of sc.kind built for sc.n passes; pass j prints
\* j, executes SignalNode(sc.sig) inside sc.kinds (nothing when sc.sig is
\* "none") and prints 100 + j.  The array a counts the passes; the
\* condition is a call that prints 0.
SignalBody(sc, j) ==
  <<PushTo("a"), Say(j)>>
  \o Nest(sc.kinds, 1,
          IF sc.sig = "none" THEN <<>> ELSE <<SignalNode(sc.sig)>>, FALSE)
  \o <<Say(OperatorNode("+", Lit(100), j))>>
SignalLoop(sc) ==
  CASE sc.kind = "WhileNode" ->
         WhileNode(FunctionCallNode("check", <<>>), SignalBody(sc, LengthOf("a")))
    [] sc.kind = "DoWhileNode" ->
         DoWhileNode(SignalBody(sc, LengthOf("a")), FunctionCallNode("check", <<>>))
    [] sc.kind = "ForNode" ->
         ForNode(VariableDeclarationNode("number", "j", Lit(1)),
                 FunctionCallNode("check", <<>>),
                 AssignmentNode("j", OperatorNode("+", Ref("j"), Lit(1))),
                 SignalBody(sc, Ref("j")))
    [] sc.kind = "ForEachNode" ->
         ForEachNode("j", ArrayLiteralNode([i \in 1..sc.n |-> Lit(i)]),
                     SignalBody(sc, Ref("j")))
SignalScenarios ==
  {Scenario("signal", ks, kind, sig, n, 0, 0, 0, "") :
     ks \in KindSeqs(Constructs, 0, 1), kind \in LoopKinds,
     sig \in {"break", "continue", "none"}, n \in 2..MaxCount}
SignalProgram(sc) ==
  <<VariableDeclarationNode("array", "a", ArrayLiteralNode(<<>>)),
    VariableDeclarationNode("function", "check",
      FunctionLiteralNode("check", <<>>,
        <<Mark(0), ReturnNode(OperatorNode("<", LengthOf("a"), Lit(sc.n)))>>, FALSE)),
    SignalLoop(sc),
    Mark(70)>>

\* family "escape": a loop of sc.kind at top level built for sc.n passes;
\* pass j prints j, calls f(j) and prints 100 + j.  f is a closure of kind
\* EscapeKinds[sc.a1] that raises sc.sig when its argument is sc.at, outside
\* any loop of its own.
EscapeKinds == <<"plain", "pure", "arrow">>
EscapeClosure(sc) ==
  LET raise == IfNode(OperatorNode("==", Ref("n"), Lit(sc.at)), Raise(sc.sig), <<>>)
  IN IF EscapeKinds[sc.a1] = "arrow" THEN ArrowFunctionNode(<<"n">>, raise)
     ELSE FunctionLiteralNode("f", <<"n">>, <<raise>>, EscapeKinds[sc.a1] = "pure")
EscapeBody(j) ==
  <<Say(j), FunctionCallNode("f", <<j>>), Say(OperatorNode("+", Lit(100), j))>>
EscapeLoop(sc) ==
  CASE sc.kind = "WhileNode" ->
         WhileNode(OperatorNode("<", LengthOf("a"), Lit(sc.n)),
                   <<PushTo("a")>> \o EscapeBody(LengthOf("a")))
    [] sc.kind = "DoWhileNode" ->
         DoWhileNode(<<PushTo("a")>> \o EscapeBody(LengthOf("a")),
                     OperatorNode("<", LengthOf("a"), Lit(sc.n)))
    [] sc.kind = "ForNode" ->
         ForNode(VariableDeclarationNode("number", "j", Lit(1)),
                 OperatorNode("<=", Ref("j"), Lit(sc.n)),
                 AssignmentNode("j", OperatorNode("+", Ref("j"), Lit(1))),
                 EscapeBody(Ref("j")))
    [] sc.kind = "ForEachNode" ->
         ForEachNode("j", ArrayLiteralNode([i \in 1..sc.n |-> Lit(i)]),
                     EscapeBody(Ref("j")))
EscapeScenarios ==
  {sc \in {Scenario("escape", <<>>, kind, sig, n, at, a1, 0, "if") :
             kind \in LoopKinds,
             sig \in {"BreakSignal", "ContinueSignal", "ReturnSignal"},
             n \in 1..MaxCount, at \in 1..MaxCount, a1 \in 1..Len(EscapeKinds)} :
     /\ sc.at <= sc.n
     /\ sc.sig = "ReturnSignal" => EscapeKinds[sc.a1] # "arrow"}
EscapeProgram(sc) ==
  <<VariableDeclarationNode("array", "a", ArrayLiteralNode(<<>>)),
    VariableDeclarationNode("function", "f", EscapeClosure(sc)),
    EscapeLoop(sc),
    Mark(70)>>

\* family "arrowreturn": g1 = (n) => return n + 1, an arrow function whose
\* body is a Return, and g2 = (n) => g1(n).  g<sc.n>(5) is called inside
\* sc.kinds, after print(1) and before print(2): with body "function" in the
\* function literal f, whose call is printed, with body "top" at top level.
ArrowReturnScenarios ==
  {Scenario("arrowreturn", ks, "", "ReturnSignal", n, 0, 0, 0, body) :
     ks \in KindSeqs(Constructs, 0, 1), n \in 1..2, body \in {"function", "top"}}
ArrowReturnCall(sc) ==
  <<Mark(1)>>
  \o Nest(sc.kinds, 1, <<FunctionCallNode("g" \o ToString(sc.n), <<Lit(5)>>)>>, FALSE)
  \o <<Mark(2)>>
ArrowReturnProgram(sc) ==
  <<VariableDeclarationNode("function", "g1",
      ArrowFunctionNode(<<"n">>, ReturnNode(OperatorNode("+", Ref("n"), Lit(1))))),
    VariableDeclarationNode("function", "g2",
      ArrowFunctionNode(<<"n">>, FunctionCallNode("g1", <<Ref("n")>>)))>>
  \o (IF sc.body = "function"
      THEN <<VariableDeclarationNode("function", "f",
               FunctionLiteralNode("f", <<>>,
                 ArrowReturnCall(sc) \o <<ReturnNode(Lit(9))>>, FALSE)),
             Say(FunctionCallNode("f", <<>>))>>
      ELSE <<BlockNode(ArrowReturnCall(sc)), Mark(3)>>)
  \o <<Mark(70)>>

\* family "raising": the closure of the pure function f(x) called twice with
\* the same sc.n arguments, each ArgExprs[sc.a1], each call in the body of a
\* DoWhile of one pass in the try block of a TryCatch; f prints 5 and then
\* raises sc.sig (or, with sc.sig "", returns x).  With sc.n other than 1 the
\* argument count is not that of the parameters.
RaisingSignals == {"", "Error", "Undefined variable", "BreakSignal", "ContinueSignal"}
RaisingArgs == {1, 3, 11}
RaisingCall(sc) ==
  TryCatchNode(
    <<DoWhileNode(
        <<Say(FunctionCallNode("f", [i \in 1..sc.n |-> ArgExprs[sc.a1]]))>>,
        LiteralNode(Bool(FALSE))),
      Mark(40)>>,
    "e", <<Mark(60)>>)
RaisingScenarios ==
  {Scenario("raising", <<>>, "", sig, n, 0, a1, 0, "") :
     sig \in RaisingSignals, n \in 0..2, a1 \in RaisingArgs}
RaisingProgram(sc) ==
  <<VariableDeclarationNode("function", "f",
      FunctionLiteralNode("f", <<"x">>,
        <<Mark(5)>> \o Raise(sc.sig) \o <<ReturnNode(Ref("x"))>>, TRUE)),
    RaisingCall(sc),
    RaisingCall(sc),
    Mark(70)>>

\* family "condition": x is sc.n at top level and the condition of a DoWhile
\* is x < 3.  Each pass counts itself in the array a, prints its number,
\* rebinds x to x + 3 by a statement of sc.kind standing in sc.kinds, and in
\* pass sc.at raises sc.sig; with sc.sig "flag" SignalNode("break") stands
\* directly in the body.  x is printed after the loop.
ConditionPlaces == {"BlockNode", "IfNode", "WhileNode", "ForEachNode"}
ConditionEnds == {"", "BreakSignal", "ContinueSignal", "ReturnSignal", "Error"}
ConditionRebind(kind) ==
  IF kind = "VariableDeclarationNode"
  THEN VariableDeclarationNode("number", "x", OperatorNode("+", Ref("x"), Lit(3)))
  ELSE AssignmentNode("x", OperatorNode("+", Ref("x"), Lit(3)))
ConditionBody(sc) ==
  <<PushTo("a"), Say(LengthOf("a"))>>
  \o Nest(sc.kinds, 1, <<ConditionRebind(sc.kind)>>, FALSE)
  \o (IF sc.sig = "flag" THEN <<SignalNode("break")>>
      ELSE <<IfNode(OperatorNode("==", LengthOf("a"), Lit(sc.at)), Raise(sc.sig), <<>>)>>)
ConditionScenarios ==
  {Scenario("condition", ks, kind, sig, n, at, 0, 0, "") :
     ks \in KindSeqs(ConditionPlaces, 0, 1),
     kind \in {"VariableDeclarationNode", "AssignmentNode"},
     sig \in ConditionEnds, n \in {0, 5}, at \in 1..2}
  \cup {Scenario("condition", ks, kind, "flag", n, 1, 0, 0, "") :
     ks \in KindSeqs(ConditionPlaces, 0, 1),
     kind \in {"VariableDeclarationNode", "AssignmentNode"}, n \in {0, 5}}
ConditionProgram(sc) ==
  <<VariableDeclarationNode("array", "a", ArrayLiteralNode(<<>>)),
    VariableDeclarationNode("number", "x", Lit(sc.n)),
    DoWhileNode(ConditionBody(sc), OperatorNode("<", Ref("x"), Lit(3))),
    Say(Ref("x")),
    Mark(70)>>

Scenarios ==
  ReturnScenarios \cup WhileScenarios \cup LoopScenarios \cup TryCatchScenarios
  \cup MemoScenarios \cup ScopeScenarios \cup AssignScenarios \cup CondScenarios
  \cup BuiltInScenarios
  \cup ClosureScenarios
  \cup DriverScenarios
  \cup OperatorScenarios
  \cup TwiceScenarios
  \cup LexicalScenarios
  \cup FunDeclScenarios
  \cup DeclareScenarios
  \cup ConcatScenarios
  \cup SwitchScenarios
  \cup ParametersScenarios
  \cup SignalScenarios
  \cup EscapeScenarios
  \cup ArrowReturnScenarios
  \cup RaisingScenarios
  \cup ConditionScenarios

Program(sc) ==
  CASE sc.family = "return" -> ReturnProgram(sc)
    [] sc.family = "while" -> WhileProgram(sc)
    [] sc.family = "loop" -> LoopProgram(sc)
    [] sc.family = "trycatch" -> TryCatchProgram(sc)
    [] sc.family = "memo" -> MemoProgram(sc)
    [] sc.family = "scope" -> ScopeProgram(sc)
    [] sc.family = "assign" -> AssignProgram(sc)
    [] sc.family = "cond" -> CondProgram(sc)
    [] sc.family = "builtin" -> BuiltInProgram(sc)
    [] sc.family = "closure" -> ClosureProgram(sc)
    [] sc.family = "driver" -> DriverProgram(sc)
    [] sc.family = "operator" -> OperatorProgram(sc)
    [] sc.family = "twice" -> TwiceProgram(sc)
    [] sc.family = "lexical" -> LexicalProgram(sc)
    [] sc.family = "fundecl" -> FunDeclProgram(sc)
    [] sc.family = "declare" -> DeclareProgram(sc)
    [] sc.family = "concat" -> ConcatProgram(sc)
    [] sc.family = "switch" -> SwitchProgram(sc)
    [] sc.family = "parameters" -> ParametersProgram(sc)
    [] sc.family = "signal" -> SignalProgram(sc)
    [] sc.family = "escape" -> EscapeProgram(sc)
    [] sc.family = "arrowreturn" -> ArrowReturnProgram(sc)
    [] sc.family = "raising" -> RaisingProgram(sc)
    [] sc.family = "condition" -> ConditionProgram(sc)

---------------------------------------------------------------------------
(* The driver: Interpreter.execute *)

Root == 1

\* this.nodes: the top-level nodes the Interpreter was constructed with.
nodes == Program(scenario)

\* const context = new ExecutionContext()
NewRootContext ==
  /\ status = "constructed"
  /\ st' = NewExecutionContext(st, 0)
  /\ status' = "running"
  /\ UNCHANGED <<scenario, pc, thrown, inference, verdict>>

\* One turn of the forEach as it would be if what a node throws were
\* dropped and the next node executed.
ExecuteNode_resume ==
  /\ status = "running"
  /\ pc <= Len(nodes)
  /\ st' = execute(nodes[pc], Root, st).st
  /\ pc' = pc + 1
  /\ UNCHANGED <<scenario, status, thrown, inference, verdict>>

\* One turn of this.nodes.forEach: node.execute(context).  What a node
\* throws ends execute and surfaces to the caller.
ExecuteNode ==
  /\ status = "running"
  /\ pc <= Len(nodes)
  /\ LET r == execute(nodes[pc], Root, st)
     IN /\ st' = r.st
        /\ IF r.k = "normal"
           THEN /\ pc' = pc + 1
                /\ UNCHANGED <<status, thrown>>
           ELSE /\ status' = IF r.k = "hang" THEN "hung" ELSE "threw"
                /\ thrown' = [k |-> r.k, v |-> r.v]
                /\ pc' = pc
  /\ UNCHANGED <<scenario, inference, verdict>>

\* return context
ReturnContext ==
  /\ status = "running"
  /\ pc > Len(nodes)
  /\ status' = "returned"
  /\ UNCHANGED <<scenario, pc, st, thrown, inference, verdict>>

\* No call of compareTypes made yet.
NoVerdict == [called |-> FALSE, ab |-> FALSE, ba |-> FALSE, aa |-> FALSE]

\* The programs whose nodes are all of classes with a modelled inferType.
TypedFamilies == {"declare", "concat", "parameters"}

\* The root type environment.
RootEnv == 1

\* node.inferType(env) for the next top-level node, against the one root
\* TypeEnvironment; a throw ends the pass.
InferNode ==
  /\ scenario.family \in TypedFamilies
  /\ inference.status = "checking"
  /\ inference.pc <= Len(nodes)
  /\ LET r == inferType(nodes[inference.pc], RootEnv, inference.env)
     IN inference' =
          IF r.k = "normal"
          THEN [env |-> r.env, pc |-> inference.pc + 1, status |-> "checking",
                type |-> r.v, msg |-> ""]
          ELSE [env |-> r.env, pc |-> inference.pc, status |-> "threw",
                type |-> AnyType, msg |-> r.msg]
  /\ UNCHANGED <<scenario, pc, st, status, thrown, verdict>>

---------------------------------------------------------------------------
(* The specification *)

\* new Interpreter(nodes)
Init ==
  /\ scenario \in Scenarios
  /\ pc = 1
  /\ st = EmptyStore
  /\ status = "constructed"
  /\ thrown = [k |-> "none", v |-> Undefined]
  /\ inference = [env |-> NewTypeEnvironment(<<>>, 0), pc |-> 1,
                  status |-> "checking", type |-> AnyType, msg |-> ""]
  /\ verdict = NoVerdict

Next == NewRootContext \/ ExecuteNode \/ ReturnContext \/ InferNode

Spec == Init /\ [][Next]_vars

---------------------------------------------------------------------------
(* compareTypes on its own: the pairs of types it is called with, and the  *)
(* calls.                                                                  *)

\* The type names.
TypeNames ==
  {"number", "string", "boolean", "null", "undefined", "bigint", "symbol", "void",
   "any"}

\* The types the shapes are built over.
ElementTypes == {TypeName("number"), TypeName("string"), AnyType}

\* The well-formed types nested to depth d: the element types, arrays,
\* functions of no or one parameter, and objects of no, one or two
\* properties, the two in either order.
RECURSIVE TypesOfDepth(_)
TypesOfDepth(d) ==
  IF d = 0 THEN ElementTypes
  ELSE LET inner == TypesOfDepth(d - 1)
       IN ElementTypes
          \cup {ArrayType(t) : t \in inner}
          \cup {FunctionType(<<>>, t) : t \in inner}
          \cup {FunctionType(<<TypeName("number")>>, t) : t \in inner}
          \cup {ObjectType(<<>>)}
          \cup {ObjectType(<<[key |-> "x", type |-> t]>>) : t \in inner}
          \cup {ObjectType(<<[key |-> "x", type |-> t],
                             [key |-> "y", type |-> TypeName("number")]>>) : t \in inner}
          \cup {ObjectType(<<[key |-> "y", type |-> TypeName("number")],
                             [key |-> "x", type |-> t]>>) : t \in inner}

Types == {TypeName(n) : n \in TypeNames} \cup TypesOfDepth(MaxTypeDepth)

TypeInit ==
  /\ scenario \in [family : {"compareTypes"}, a : Types, b : Types]
  /\ pc = 1
  /\ st = EmptyStore
  /\ status = "constructed"
  /\ thrown = [k |-> "none", v |-> Undefined]
  /\ inference = [env |-> NewTypeEnvironment(<<>>, 0), pc |-> 1,
                  status |-> "checking", type |-> AnyType, msg |-> ""]
  /\ verdict = NoVerdict

\* compareTypes(a, b), compareTypes(b, a) and compareTypes(a, a)
CompareTypes ==
  /\ ~verdict.called
  /\ verdict' = [called |-> TRUE,
                 ab |-> compareTypes(scenario.a, scenario.b),
                 ba |-> compareTypes(scenario.b, scenario.a),
                 aa |-> compareTypes(scenario.a, scenario.a)]
  /\ UNCHANGED <<scenario, pc, st, status, thrown, inference>>

TypeNext == CompareTypes

TypeSpec == TypeInit /\ [][TypeNext]_vars

---------------------------------------------------------------------------
(* What is observed of a run *)

\* The console: the argument lists print was called with, in order.
Console == st.out
RootVariables == st.frames[Root].variables
Failed == status \in {"threw", "hung"}

\* The console lines that print the numbers ns.
Lines(ns) == [i \in 1..Len(ns) |-> <<Num(ns[i])>>]

\* The frames that bind name.
Binding(name) == {f \in 1..Len(st.frames) : name \in DOMAIN st.frames[f].variables}

\* The error object a generic error of scenario signal sig is caught as.
Caught(sig) ==
  IF sig = "Error" THEN ErrorObject("boom")
  ELSE ErrorObject("Undefined variable: nowhere")

\* What the passes j..sc.n of the loop of families "while" and "loop" are
\* to print, pass by pass; with test, 0 stands for each evaluation of the
\* condition.
RECURSIVE Rounds(_, _, _)
Rounds(sc, j, test) ==
  LET cond == IF test THEN <<0>> ELSE <<>>
      raised == sc.body = "direct" \/ j = sc.at
  IN IF j > sc.n THEN cond
     ELSE cond \o <<j>>
          \o (IF ~raised THEN <<100 + j>> \o Rounds(sc, j + 1, test)
              ELSE IF sc.sig = "ContinueSignal" THEN Rounds(sc, j + 1, test)
              ELSE <<>>)

---------------------------------------------------------------------------
(* Return, Break and Continue *)

\* C1: a Return nested at any depth inside Block, If, While, DoWhile, For,
\* ForEach, Switch or TryCatch nodes of a function body ends the call of the
\* closure with the Return's value as its ordinary result: of the body only
\* the statements before the Return have run (1 and, per level, 10 + i),
\* no catch block has run (99), and nothing is thrown out of the call.
ReturnEndsTheCall ==
  scenario.family = "return" =>
    /\ ~Failed
    /\ pc <= 2 => Console = <<>>
    /\ pc > 2 =>
         /\ getVariable(st, Root, "r").v = Num(7)
         /\ Console = Lines(<<1>> \o [i \in 1..Len(scenario.kinds) |-> 10 + i])
                      \o (IF pc > 3 THEN Lines(<<7>>) ELSE <<>>)

ReturnEndsTheCall_witness ==
  /\ scenario.family = "return"
  /\ scenario.kinds = <<"TryCatchNode", "WhileNode">>
  /\ status = "returned"
  /\ RootVariables["r"] = Num(7)
  /\ Console = Lines(<<1, 11, 12, 7>>)

\* C2: in a While loop a Break ends the loop at once (no later statement of
\* the pass, no further test of the condition, no further pass); a Continue
\* skips the rest of its pass only, the condition is tested again and the
\* later passes run.
WhileBreakAndContinue ==
  scenario.family = "while" =>
    /\ ~Failed
    /\ pc <= 3 => Console = <<>>
    /\ pc > 3 => Console = Lines(Rounds(scenario, 1, TRUE))
                           \o (IF pc > 4 THEN Lines(<<70>>) ELSE <<>>)

WhileBreakAndContinue_witness ==
  /\ scenario.family = "while"
  /\ scenario.sig = "BreakSignal" /\ scenario.n = 3 /\ scenario.at = 2
  /\ status = "returned"
  /\ Console = Lines(<<0, 1, 101, 0, 2, 70>>)

\* C3: in While, DoWhile, For and ForEach alike, a Break or Continue raised
\* in the body does not leave the loop (the statement after the loop, 50,
\* runs and the function ends normally), whereas a Return or a generic error
\* leaves the loop unchanged (the call yields 7, or the catch at the call
\* site gets the error) and no further pass runs.
LoopsAbsorbBreakAndContinue ==
  scenario.family = "loop" =>
    /\ ~Failed
    /\ pc <= 2 => Console = <<>>
    /\ pc > 2 =>
         Console = Lines(Rounds(scenario, 1, FALSE))
                   \o (CASE scenario.sig = "ReturnSignal" -> Lines(<<7>>)
                         [] scenario.sig \in {"Error", "Undefined variable"} ->
                              Lines(<<60>>) \o <<<<Caught(scenario.sig)>>>>
                         [] OTHER -> Lines(<<50>>) \o <<<<Undefined>>>>)
                   \o (IF pc > 3 THEN Lines(<<70>>) ELSE <<>>)

LoopsAbsorbBreakAndContinue_witness ==
  /\ scenario.family = "loop"
  /\ scenario.kind = "DoWhileNode" /\ scenario.sig = "ContinueSignal"
  /\ scenario.n = 3 /\ scenario.at = 2
  /\ status = "returned"
  /\ Console = Lines(<<1, 101, 2, 3, 103, 50>>) \o <<<<Undefined>>>> \o Lines(<<70>>)

\* C4: when the try block raises a generic error, the rest of the try block
\* is skipped (91), the error is bound to the catch variable in a fresh
\* child of the enclosing context (its frame holds the catch variable only,
\* beside what every new context holds), the catch block runs there, its
\* result (33) is the node's result and nothing is thrown; when the try
\* block raises Return, Break or Continue, the catch block does not run and
\* that signal, with its value, leaves the TryCatch.
TryCatchCatchesErrorsOnly ==
  scenario.family = "trycatch" =>
    /\ status # "hung"
    /\ scenario.sig \in {"Error", "Undefined variable"} =>
         /\ status # "threw"
         /\ pc > 2 =>
              /\ Console = Lines(<<20, 60>>) \o <<<<Caught(scenario.sig)>>>>
                           \o Lines(<<1, 33>>)
                           \o (IF pc > 3 THEN Lines(<<70>>) ELSE <<>>)
              /\ Cardinality(Binding("e")) = 1
              /\ \A f \in Binding("e") :
                   /\ st.frames[f].parent = Root
                   /\ DOMAIN st.frames[f].variables = BuiltInNames \cup {"e"}
                   /\ st.frames[f].variables["e"] = Caught(scenario.sig)
    /\ scenario.sig \in {"ReturnSignal", "BreakSignal", "ContinueSignal"} =>
         /\ pc <= 2
         /\ status = "threw" =>
              /\ thrown = [k |-> scenario.sig,
                           v |-> IF scenario.sig = "ReturnSignal" THEN Num(7)
                                 ELSE Undefined]
              /\ Console = Lines(<<20>>)
              /\ Binding("e") = {}

TryCatchCatchesErrorsOnly_witness ==
  /\ scenario.family = "trycatch"
  /\ scenario.sig = "Error" /\ scenario.kinds = <<"SwitchNode">>
  /\ status = "returned"
  /\ Binding("e") # {}
  /\ Console[5] = <<Num(33)>>

---------------------------------------------------------------------------
(* Pure functions *)

\* The shape of the value of each of ArgExprs: two argument lists are
\* structurally identical when their shapes are equal.
ArgShapes ==
  <<"1", "1", "2", "'1'", "null", "undefined", "NaN", "true", "function g",
    "function h", "[1]", "[undefined]", "[null]">>
SameArgs == ArgShapes[scenario.a1] = ArgShapes[scenario.a2]

\* The number of times the body of f has been executed: it prints 5 first.
BodyExecutions == Cardinality({i \in 1..Len(Console) : Console[i] = Lines(<<5>>)[1]})

\* C5 as stated: the closure of a pure function called twice with
\* structurally identical argument lists executes its body only once.
PureBodyRunsOnce ==
  (scenario.family = "memo" /\ status = "returned" /\ SameArgs) =>
    BodyExecutions = 1

\* C5: the closure of a pure function called twice with structurally
\* identical argument lists, the first call having returned (by a Return or
\* by reaching the end of the body), executes its body only once: the second
\* call yields the result of the first without executing a statement of the
\* body, also when that result is undefined.
PureBodyRunsOnceAfterResult ==
  (scenario.family = "memo" /\ scenario.body # "error" /\ SameArgs) =>
    /\ ~Failed
    /\ pc > 4 => /\ Len(Console) >= 2
                 /\ Console[1] = Lines(<<5>>)[1]
                 /\ scenario.body = "undefined" => Console[2] = <<Undefined>>
    /\ pc > 5 => /\ Len(Console) >= 3
                 /\ Console[3] = Console[2]
                 /\ BodyExecutions = 1

PureBodyRunsOnceAfterResult_witness ==
  /\ scenario.family = "memo" /\ scenario.body = "undefined"
  /\ scenario.a1 = 1 /\ scenario.a2 = 2
  /\ status = "returned"
  /\ Console = Lines(<<5>>) \o <<<<Undefined>>, <<Undefined>>>> \o Lines(<<70>>)

\* C6: the closure of a pure function called with two different argument
\* lists executes its body for each call; the second call does not get the
\* result cached for the first.
DifferentArgumentsRunTheBody ==
  (scenario.family = "memo" /\ status = "returned" /\ ~SameArgs) =>
    BodyExecutions = 2

---------------------------------------------------------------------------
(* Scopes *)

\* C7: an Assignment executed in a child scope (the scope v is declared
\* in, which is not the top-level one) to the name x bound at top level
\* leaves the binding of x at top level alone: once the child scope has
\* ended, x looked up at top level is 1, as before.
AssignmentShadows ==
  (scenario.family = "scope" /\ Binding("v") # {} /\ Root \notin Binding("v")) =>
    /\ ~Failed
    /\ getVariable(st, Root, "x").v = Num(1)
    /\ pc > 3 => Console = Lines(<<2>>) \o (IF pc > 4 THEN Lines(<<1>>) ELSE <<>>)

AssignmentShadows_witness ==
  /\ scenario.family = "scope"
  /\ scenario.kinds = <<"WhileNode", "BlockNode">>
  /\ status = "returned"
  /\ Root \notin Binding("v")
  /\ Console = Lines(<<2, 1>>)

\* C8: each of Block, If, While, DoWhile, For, ForEach, Switch and TryCatch
\* executes its body in a fresh child context: what the body declares (v)
\* or assigns (x) is not written into the frame of the enclosing context.
BodiesRunInChildContexts ==
  (scenario.family = "scope" /\ Len(scenario.kinds) = 1
   /\ scenario.kinds[1] \in Constructs /\ pc > 3) =>
    /\ "v" \notin DOMAIN RootVariables
    /\ RootVariables["x"] = Num(1)

\* C9: an Assignment to a name bound in no context up to the root fails with
\* an error (the node after it is not reached) and creates no binding.
AssignmentNeedsABinding ==
  scenario.family = "assign" =>
    /\ pc = 1
    /\ Binding("y") = {}

\* C10: If, While, For and DoWhile raise an error when their condition
\* evaluates to a value that is not a boolean (the node after them is not
\* reached), and the value does not decide whether the body runs or runs
\* again: the body does not run, but for the one pass a DoWhile makes
\* before it evaluates its condition.
ConditionsMustBeBoolean ==
  (scenario.family = "cond" /\ CondValues[scenario.a1].t # "boolean") =>
    /\ pc <= 2
    /\ Len(Console) <= (IF scenario.kind = "DoWhileNode" THEN 1 ELSE 0)

---------------------------------------------------------------------------
(* Built-ins *)

\* C11: only the root context holds the built-in callables, a context made
\* by createChildContext holds no binding of its own until a node defines
\* one; so a built-in name bound to 5 at top level reads as 5 from any
\* nested scope, as it does at top level.
OnlyRootHoldsBuiltIns ==
  scenario.family = "builtin" =>
    /\ \A f \in 2..Len(st.frames) :
         \A x \in DOMAIN st.frames[f].variables : ~IsBuiltIn(st.frames[f].variables[x])
    /\ pc > 3 => Console = Lines(<<5>>) \o (IF pc > 4 THEN Lines(<<5>>) ELSE <<>>)

---------------------------------------------------------------------------
(* Closures *)

\* C12: the call of the closure of a function literal yields undefined when
\* its body ends without a Return, whatever its last statement evaluated
\* to, and the Return's value when a Return is raised; the body statements
\* run in order in a fresh child of the capturing context (the one f is
\* bound in), with the parameters bound to the arguments by position.
ClosureCallResult ==
  scenario.family = "closure" =>
    /\ ~Failed
    /\ \A f \in Binding("p") :
         /\ st.frames[f].parent \in Binding("f")
         /\ st.frames[f].variables["p"] = Num(3)
         /\ "q" \in DOMAIN st.frames[f].variables
         /\ st.frames[f].variables["q"] = Num(4)
         /\ DOMAIN st.frames[f].variables \subseteq BuiltInNames \cup {"p", "q", "v"}
    /\ status = "returned" =>
         /\ Cardinality(Binding("f")) = 1
         /\ Cardinality(Binding("p")) = 1
         /\ Console =
              (CASE scenario.body \in {"last", "declare"} ->
                      Lines(<<3, 4>>) \o <<<<Undefined>>>>
                 [] scenario.body = "return" -> Lines(<<3, 34>>)
                 [] scenario.body = "empty" -> <<<<Undefined>>>>)
              \o Lines(<<70>>)

ClosureCallResult_witness ==
  /\ scenario.family = "closure"
  /\ scenario.body = "last" /\ scenario.kinds = <<"ForEachNode">> /\ scenario.a2 = 1
  /\ status = "returned"
  /\ Console = Lines(<<3, 4>>) \o <<<<Undefined>>>> \o Lines(<<70>>)

---------------------------------------------------------------------------
(* The driver *)

\* The numbers lo..hi but skip, in order.
RECURSIVE Others(_, _, _)
Others(lo, hi, skip) ==
  IF lo > hi THEN <<>>
  ELSE (IF lo = skip THEN <<>> ELSE <<lo>>) \o Others(lo + 1, hi, skip)

\* C13: Interpreter.execute runs the top-level nodes in their order against
\* one root context and returns it; when node k raises something no
\* TryCatch caught (a generic error or a Return, Break or Continue), the
\* nodes after k are not executed and what was raised surfaces to the
\* caller, no context being returned.
DriverAbortsOnRaise ==
  (scenario.family = "driver" /\ status # "constructed") =>
    /\ status # "hung"
    /\ Console = Lines(Others(1, pc - 1, scenario.at))
    /\ DOMAIN RootVariables \ BuiltInNames =
         {DriverNames[i] : i \in (1..(pc - 1)) \ {scenario.at}}
    /\ scenario.sig = "none" => status # "threw"
    /\ scenario.sig # "none" =>
         /\ pc <= scenario.at
         /\ status # "returned"
         /\ status = "threw" =>
              /\ pc = scenario.at
              /\ thrown.k = IF scenario.sig = "Undefined variable" THEN "Error"
                            ELSE scenario.sig
              /\ thrown.v = CASE scenario.sig = "ReturnSignal" -> Num(7)
                              [] scenario.sig \in {"Error", "Undefined variable"} ->
                                   Caught(scenario.sig)
                              [] OTHER -> Undefined

DriverAbortsOnRaise_witness ==
  /\ scenario.family = "driver"
  /\ scenario.sig = "BreakSignal" /\ scenario.at = 2 /\ scenario.kinds = <<>>
  /\ status = "threw"
  /\ thrown.k = "BreakSignal"
  /\ Console = Lines(<<1>>)

---------------------------------------------------------------------------
(* Operators *)

\* C14: OperatorNode.execute evaluates both operands once each, the left
\* one to its end before the right one, under every operator, && and ||
\* included, whose right operand is evaluated whatever the left one gave;
\* when the left operand raises, the right one is not evaluated.
BothOperandsEvaluated ==
  (scenario.family = "operator" /\ status = "returned") =>
    LET l == OperandValues[scenario.a1]
        r == OperandValues[scenario.a2]
    IN IF scenario.sig # "none" THEN Console = Lines(<<1, 60, 70>>)
       ELSE IF scenario.kind \in {"?", "concat"} THEN Console = Lines(<<1, 2, 60, 70>>)
       ELSE /\ Len(Console) = 4
            /\ Console[1] = <<Num(1)>> /\ Console[2] = <<Num(2)>>
            /\ Console[4] = <<Num(70)>>
            /\ scenario.kind = "&&" => Console[3] = <<Bool(Truthy(l) /\ Truthy(r))>>
            /\ scenario.kind = "||" => Console[3] = <<Bool(Truthy(l) \/ Truthy(r))>>

BothOperandsEvaluated_witness ==
  /\ scenario.family = "operator"
  /\ scenario.kind = "&&" /\ scenario.sig = "none"
  /\ OperandValues[scenario.a1] = Bool(FALSE)
  /\ status = "returned"
  /\ Console = <<<<Num(1)>>, <<Num(2)>>, <<Bool(FALSE)>>, <<Num(70)>>>>

---------------------------------------------------------------------------
(* Two closures of one node *)

\* The closures made from the node of family "twice".
TwiceClosures ==
  {i \in 1..Len(st.closures) : st.closures[i].node = TwiceNode(scenario.kind)}

\* C15: converting one FunctionLiteral or Arrow node twice gives two
\* closures that share nothing: each resolves the free name j through the
\* context it was converted in, each call binds n in a fresh child frame of
\* that context, and a pure literal's results are cached per closure, so
\* that the body runs for the first call of each closure with an argument
\* list, even one the other closure was called with before.
ClosuresAreIndependent ==
  scenario.family = "twice" =>
    /\ ~Failed
    /\ Cardinality(TwiceClosures) <= 2
    /\ \A f \in Binding("n") :
         /\ DOMAIN st.frames[f].variables \ BuiltInNames = {"n"}
         /\ \E i \in TwiceClosures : st.closures[i].context = st.frames[f].parent
    /\ status = "returned" =>
         /\ Cardinality(TwiceClosures) = 2
         /\ Cardinality(Binding("n")) =
              IF scenario.kind = "pure" THEN 3 ELSE 4
         /\ Console =
              Lines(CASE scenario.body = "args" /\ scenario.kind = "pure" ->
                           <<5, 11, 5, 11, 11, 5, 12, 70>>
                      [] scenario.body = "args" /\ scenario.kind = "plain" ->
                           <<5, 11, 5, 11, 5, 11, 5, 12, 70>>
                      [] scenario.body = "nested" /\ scenario.kind = "pure" ->
                           <<5, 11, 5, 21, 11, 5, 22, 70>>
                      [] scenario.body = "nested" /\ scenario.kind = "plain" ->
                           <<5, 11, 5, 21, 5, 11, 5, 22, 70>>
                      [] OTHER -> <<11, 21, 11, 22, 70>>)

ClosuresAreIndependent_witness ==
  /\ scenario.family = "twice"
  /\ scenario.kind = "pure" /\ scenario.body = "nested"
  /\ status = "returned"
  /\ Cardinality(TwiceClosures) = 2
  /\ \E i, k \in TwiceClosures :
       /\ st.closures[i].context # st.closures[k].context
       /\ Len(st.closures[i].cache) = 1 /\ Len(st.closures[k].cache) = 2
  /\ Console = Lines(<<5, 11, 5, 21, 11, 5, 22, 70>>)

---------------------------------------------------------------------------
(* Lexical scoping *)

\* C16: a closure declared with kind "function" is lexically scoped: the
\* arguments of a call are evaluated in the caller's context (y there is
\* 2), the parameter n is bound in a fresh child of the context the closure
\* was defined in, and the free name y of the body is looked up from the
\* defining context: where the caller's scope is a context of its own (w is
\* not a top-level binding), its y = 2 is not seen and g(y) is 2 + 1.
\* double(x) with x = 5 is 10.
ClosuresAreLexicallyScoped ==
  scenario.family = "lexical" =>
    /\ ~Failed
    /\ \A f \in Binding("n") :
         /\ st.frames[f].parent = Root
         /\ DOMAIN st.frames[f].variables \ BuiltInNames = {"n"}
         /\ st.frames[f].variables["n"] \in {Num(5), Num(2)}
    /\ pc > 6 => SubSeq(Console, 1, 1) = Lines(<<10>>)
    /\ status = "returned" =>
         /\ Cardinality(Binding("n")) = 3
         /\ Console = Lines(<<10, IF Root \in Binding("w") THEN 4 ELSE 3, 4, 70>>)

ClosuresAreLexicallyScoped_witness ==
  /\ scenario.family = "lexical"
  /\ scenario.kind = "arrow" /\ scenario.kinds = <<"BlockNode">>
  /\ status = "returned"
  /\ Root \notin Binding("w")
  /\ \E f \in Binding("w") : st.frames[f].variables["y"] = Num(2)
  /\ RootVariables["y"] = Num(1)
  /\ Console = Lines(<<10, 3, 4, 70>>)

---------------------------------------------------------------------------
(* Declarations of kind "function" *)

\* C17: a VariableDeclaration of kind "function" whose initializer is
\* neither a FunctionLiteral nor an ArrowFunction node fails with an error,
\* the initializer not executed (nothing printed, no array made) and no
\* binding of the name made or changed; an initializer that is such a node
\* is converted, its body not executed, and the closure is bound in the
\* current frame, the one it captured.
FunctionDeclarationNeedsALiteral ==
  (scenario.family = "fundecl" /\ status = "returned") =>
    LET converted == scenario.body \in {"FunctionLiteralNode", "ArrowFunctionNode"}
        numbers == {f \in Binding("f") : st.frames[f].variables["f"] = Num(3)}
        closures == {f \in Binding("f") :
                       /\ st.frames[f].variables["f"].t = "function"
                       /\ st.frames[f].variables["f"].n \in 1..Len(st.closures)}
    IN /\ Binding("f") = numbers \cup closures
       /\ \A i \in 1..Len(st.arrays) : st.arrays[i] # <<Num(8)>>
       /\ ~converted =>
            /\ Console = <<<<ErrorObject("Variable 'f' expected a function literal")>>,
                           <<Num(70)>>>>
            /\ closures = {}
            /\ numbers = IF scenario.a2 = 1 THEN {Root} ELSE {}
       /\ converted =>
            /\ Console = Lines(<<50, 70>>)
            /\ Cardinality(closures) = 1
            /\ \A f \in closures :
                 LET c == st.closures[st.frames[f].variables["f"].n]
                 IN c.node = Initializer(scenario.body) /\ c.context = f
            /\ numbers \subseteq {Root}

FunctionDeclarationNeedsALiteral_witness ==
  /\ scenario.family = "fundecl"
  /\ scenario.body = "print" /\ scenario.a2 = 1 /\ scenario.kinds = <<"ForNode">>
  /\ status = "returned"
  /\ RootVariables["f"] = Num(3)
  /\ Console = <<<<ErrorObject("Variable 'f' expected a function literal")>>,
                 <<Num(70)>>>>

---------------------------------------------------------------------------
(* Declarations and operators in both passes *)

\* The type environment's bindings at the root.
RootTypes == inference.env[RootEnv].types

\* C18: the declaration of x of kind "number" with a string-valued
\* initializer fails with a type mismatch in both passes: execution throws
\* the declaration's mismatch error with x left unbound in the context, and
\* inference throws the declaration's mismatch error with x left unbound in
\* the type environment; neither pass gets past the declaration.
NumberFromStringMismatch ==
  (/\ scenario.family = "declare" /\ scenario.kind = "number"
   /\ DeclaredInitializers[scenario.a1] \in
        {LiteralNode(Str("a")), OperatorNode("><", LiteralNode(Str("a")), Lit(1))}) =>
    /\ pc = 1 /\ status # "returned"
    /\ status = "threw" =>
         /\ thrown = [k |-> "Error",
                      v |-> ErrorObject("Variable 'x' expected number, got string")]
         /\ "x" \notin DOMAIN RootVariables
    /\ inference.pc = 1
    /\ "x" \notin DOMAIN RootTypes
    /\ inference.status = "threw" =>
         inference.msg =
           "Type mismatch in declaration of 'x': expected number, got string"

\* C19: concat of the array literals [1,2,3] and ["a"], whose element
\* types differ, is an error in both passes: execution throws and makes no
\* array of the two, inference throws and gives no type.
ConcatOfDifferentElementTypesFails ==
  (/\ scenario.family = "concat"
   /\ ConcatOperands[scenario.a1] = ArrayLiteralNode(<<Lit(1), Lit(2), Lit(3)>>)
   /\ ConcatOperands[scenario.a2] = ArrayLiteralNode(<<LiteralNode(Str("a"))>>)) =>
    /\ pc = 1 /\ status # "returned"
    /\ \A i \in 1..Len(st.arrays) : Len(st.arrays[i]) <= 3
    /\ scenario.kind = "concat" =>
         (status = "threw" =>
            thrown = [k |-> "Error",
                      v |-> ErrorObject("Operator 'concat' requires two arrays.")])
    /\ inference.pc = 1
    /\ scenario.kind = "o_concat" =>
         (inference.status = "threw" =>
            inference.msg = "Operator 'concat' requires both operands to be arrays.")

---------------------------------------------------------------------------
(* Switch *)

\* The cases whose match is exactly the value v (=== of JavaScript: no
\* conversion, NaN equal to nothing).
SwitchMatching(v) ==
  {i \in 1..Len(SwitchMatches) :
     /\ v # NaNValue /\ SwitchMatches[i] # NaNValue
     /\ v = SwitchMatches[i]}

\* The numbers lo..hi as console lines.
RECURSIVE Counting(_, _)
Counting(lo, hi) == IF lo > hi THEN <<>> ELSE <<<<Num(lo)>>>> \o Counting(lo + 1, hi)

\* C20: Switch evaluates the control expression once, then the match
\* expressions in their order up to the first that is exactly equal to it,
\* and no match expression after that; it executes the body of that case
\* only, no later case's body and not the default, and its value is the
\* body's; the default body is executed exactly when no case matches.  On
\* 2 with cases 1 -> "one", 2 -> "two" and default "other" the value is
\* "two", on 5 it is "other".
SwitchTakesTheFirstMatch ==
  (scenario.family = "switch" /\ status = "returned") =>
    LET matching == SwitchMatching(SwitchValues[scenario.a1])
        first == CHOOSE i \in matching : \A k \in matching : i <= k
    IN Console =
         <<<<Num(0)>>>>
         \o (IF matching # {}
             THEN Counting(1, first) \o <<<<Num(10 + first)>>, <<Str(SwitchTexts[first])>>>>
             ELSE Counting(1, Len(SwitchMatches))
                  \o (IF scenario.a2 = 1 THEN <<<<Num(19)>>, <<Str("other")>>>>
                      ELSE <<<<Undefined>>>>))
         \o <<<<Num(70)>>>>

SwitchTakesTheFirstMatch_witness ==
  /\ scenario.family = "switch"
  /\ SwitchValues[scenario.a1] = Num(2) /\ scenario.a2 = 1
  /\ status = "returned"
  /\ Console = <<<<Num(0)>>, <<Num(1)>>, <<Num(2)>>, <<Num(12)>>, <<Str("two")>>,
                 <<Num(70)>>>>

---------------------------------------------------------------------------
(* compareTypes *)

\* The properties of an object type as a set.
PropertySet(t) == {t.properties[i] : i \in 1..Len(t.properties)}

\* C21: over the well-formed types built from the type names and nested
\* function, array and object shapes, compareTypes is reflexive and
\* symmetric, object types with the same properties are equal in whatever
\* order the properties stand, and "any" equals "any" only: compareTypes of
\* "any" and any other type, "number" for one, is false.
CompareTypesIsAnEquivalence ==
  (scenario.family = "compareTypes" /\ verdict.called) =>
    /\ verdict.aa
    /\ verdict.ab = verdict.ba
    /\ (/\ scenario.a.kind = "object" /\ scenario.b.kind = "object"
        /\ PropertySet(scenario.a) = PropertySet(scenario.b)) => verdict.ab
    /\ (scenario.a = AnyType /\ scenario.b # AnyType) => ~verdict.ab
    /\ scenario.a # scenario.b /\ IsTypeName(scenario.a) => ~verdict.ab

CompareTypesIsAnEquivalence_witness ==
  /\ scenario.family = "compareTypes"
  /\ scenario.a = ObjectType(<<[key |-> "x", type |-> TypeName("string")],
                               [key |-> "y", type |-> TypeName("number")]>>)
  /\ scenario.b = ObjectType(<<[key |-> "y", type |-> TypeName("number")],
                               [key |-> "x", type |-> TypeName("string")]>>)
  /\ verdict.called
  /\ verdict.ab /\ verdict.ba

---------------------------------------------------------------------------
(* Inference of declarations *)

\* The type a literal initializer of the declared kind has, for the pairs of
\* family "declare" in which kind and initializer agree.
AgreeingType(sc) ==
  CASE sc.kind = "number" /\ DeclaredInitializers[sc.a1] = Lit(1) -> TypeName("number")
    [] sc.kind = "string" /\ DeclaredInitializers[sc.a1] = LiteralNode(Str("a")) ->
         TypeName("string")
    [] sc.kind = "boolean" /\ DeclaredInitializers[sc.a1] = LiteralNode(Bool(TRUE)) ->
         TypeName("boolean")
    [] sc.kind = "null" /\ DeclaredInitializers[sc.a1] = LiteralNode(Null) ->
         TypeName("null")
    [] sc.kind = "undefined" /\ DeclaredInitializers[sc.a1] = LiteralNode(Undefined) ->
         TypeName("undefined")
    [] OTHER -> AnyType

\* C22: inference of a declaration whose kind agrees with the type inferred
\* for its initializer (kind "number" with a numeric literal, kind "string"
\* with a string literal, ...) succeeds, gives that type and binds the name
\* to it in the current type environment, so that the reference to the
\* name that follows infers that type too.
AgreeingDeclarationInfers ==
  (scenario.family = "declare" /\ AgreeingType(scenario) # AnyType) =>
    /\ inference.status # "threw"
    /\ inference.pc >= 2 =>
         /\ "x" \in DOMAIN RootTypes
         /\ RootTypes["x"] = AgreeingType(scenario)
         /\ inference.type = AgreeingType(scenario)

---------------------------------------------------------------------------
(* Inference of function literals *)

\* C23: inference of a function literal binds every parameter in a child
\* type frame, to its declared type or, when none is declared for it, to
\* any: a body that references a parameter without a declared type infers
\* without an unbound-name failure, and the function type inferred has one
\* parameter type per parameter.
EveryParameterIsTyped ==
  (scenario.family = "parameters" /\ scenario.n <= scenario.a1) =>
    LET expected == [i \in 1..scenario.a1 |->
                       IF i <= scenario.n THEN ParameterTypes[i] ELSE AnyType]
    IN /\ \A i \in 1..scenario.a1 :
            inference.msg # "Undefined variable (type): " \o ParameterNames[i]
       /\ inference.pc = 2 =>
            /\ inference.type.kind = "function"
            /\ inference.type.paramTypes = expected
            /\ \A env \in 2..Len(inference.env) :
                 /\ inference.env[env].parent = RootEnv
                 /\ DOMAIN inference.env[env].types = {ParameterNames[i] : i \in 1..scenario.a1}
                 /\ \A i \in 1..scenario.a1 :
                      inference.env[env].types[ParameterNames[i]] = expected[i]

---------------------------------------------------------------------------
(* SignalNode *)

\* What the passes j..n of the loop of family "signal" print when no pass
\* is cut short and the loop runs its n passes; 0 is each evaluation of
\* the condition.
RECURSIVE SignalRounds(_, _, _)
SignalRounds(kind, j, n) ==
  IF j > n THEN IF kind \in {"WhileNode", "ForNode"} THEN <<0>> ELSE <<>>
  ELSE (IF kind \in {"WhileNode", "ForNode"} THEN <<0>> ELSE <<>>)
       \o <<j, 100 + j>>
       \o (IF kind = "DoWhileNode" THEN <<0>> ELSE <<>>)
       \o SignalRounds(kind, j + 1, n)

\* The DoWhile of the scenario stops after its first pass, the condition
\* not evaluated.
StopsAfterFirstPass == Console = Lines(<<1, 101, 70>>)
RunsAllPasses ==
  Console = Lines(SignalRounds(scenario.kind, 1, scenario.n) \o <<70>>)

\* What the flags do: SignalNode only sets a flag of the context it is
\* executed in and the statements after it in the pass are executed.  A
\* DoWhile stops after the pass, its condition not evaluated, exactly when
\* SignalNode("break")
\* was executed in the context of that pass: standing directly in the body,
\* or in the body of a While in it, which runs in the enclosing context.
\* While, For and ForEach, and every loop with SignalNode("continue"), run
\* as without the SignalNode.
BreakFlagOfThePassStopsDoWhile ==
  (scenario.family = "signal" /\ status # "constructed") =>
    /\ ~Failed
    /\ \A f \in 1..Len(st.frames) :
         /\ st.frames[f].breakSignal => scenario.sig = "break"
         /\ st.frames[f].continueSignal => scenario.sig = "continue"
    /\ status = "returned" =>
         IF /\ scenario.kind = "DoWhileNode" /\ scenario.sig = "break"
            /\ \A i \in 1..Len(scenario.kinds) : scenario.kinds[i] = "WhileNode"
         THEN StopsAfterFirstPass
         ELSE RunsAllPasses

\* C24: SignalNode only sets a flag and the statements after it in the
\* pass are executed; a DoWhile stops after the pass, its condition not
\* evaluated, exactly when SignalNode("break") stands directly in its
\* body; every other loop, with either signal, runs as without the
\* SignalNode.
OnlyADirectBreakFlagStopsDoWhile ==
  (scenario.family = "signal" /\ status = "returned") =>
    IF /\ scenario.kind = "DoWhileNode" /\ scenario.sig = "break"
       /\ scenario.kinds = <<>>
    THEN StopsAfterFirstPass
    ELSE RunsAllPasses

---------------------------------------------------------------------------
(* Signals that leave a call *)

\* C25: the call of a closure absorbs Return only.  A Break or Continue
\* raised in the body of a function literal or an arrow function, outside
\* any loop of that body, leaves the call: raised by the call f(j) in pass
\* sc.at of a loop, the callee's Break ends that loop and the callee's
\* Continue skips the rest of the pass (100 + j is not printed) and the loop
\* goes on; the callee's Return ends the call only.
BreakAndContinueLeaveTheCall ==
  (scenario.family = "escape" /\ status # "constructed") =>
    /\ ~Failed
    /\ pc <= 3 => Console = <<>>
    /\ pc > 3 =>
         Console =
           Lines(Rounds(IF scenario.sig = "ReturnSignal"
                        THEN [scenario EXCEPT !.at = 0] ELSE scenario, 1, FALSE))
           \o (IF pc > 4 THEN Lines(<<70>>) ELSE <<>>)

BreakAndContinueLeaveTheCall_witness ==
  /\ scenario.family = "escape"
  /\ scenario.kind = "ForNode" /\ scenario.sig = "BreakSignal"
  /\ EscapeKinds[scenario.a1] = "plain"
  /\ scenario.n = 3 /\ scenario.at = 2
  /\ status = "returned"
  /\ Console = Lines(<<1, 101, 2, 70>>)

---------------------------------------------------------------------------
(* Return in an arrow function *)

\* C26: the closure of an arrow function does not absorb Return.  The
\* Return executed in the arrow body leaves the arrow call (and the arrow
\* call around it) as a ReturnSignal and ends the nearest call of a function
\* literal around it, whose result its value, 6, becomes: what follows the
\* arrow call in f is not executed.  With no such call around it, it reaches
\* the driver: the run ends with the ReturnSignal and the nodes after it are
\* not executed.
ArrowDoesNotAbsorbReturn ==
  (scenario.family = "arrowreturn" /\ status # "constructed") =>
    /\ status # "hung"
    /\ pc <= 2 => Console = <<>>
    /\ scenario.body = "function" =>
         /\ status # "threw"
         /\ pc <= 4 => Console = <<>>
         /\ pc > 4 => Console = Lines(<<1, 6>>) \o (IF pc > 5 THEN Lines(<<70>>) ELSE <<>>)
    /\ scenario.body = "top" =>
         /\ pc <= 3
         /\ status # "returned"
         /\ status = "threw" =>
              /\ pc = 3
              /\ thrown = [k |-> "ReturnSignal", v |-> Num(6)]
              /\ Console = Lines(<<1>>)

ArrowDoesNotAbsorbReturn_witness ==
  /\ scenario.family = "arrowreturn"
  /\ scenario.body = "function" /\ scenario.n = 2 /\ scenario.kinds = <<"ForEachNode">>
  /\ status = "returned"
  /\ Console = Lines(<<1, 6, 70>>)

---------------------------------------------------------------------------
(* A pure function that raises *)

\* What one call of f in family "raising" leaves on the console: 5 where the
\* body is reached, then 60 from the catch block after an Error, or 40 from
\* behind the DoWhile that a Break or Continue ended.
RaisingCallLines ==
  (IF scenario.n = 1 THEN Lines(<<5>>) ELSE <<>>)
  \o (IF scenario.n = 1 /\ scenario.sig \in {"BreakSignal", "ContinueSignal"}
      THEN Lines(<<40>>) ELSE Lines(<<60>>))

\* C27: a call of the closure of a pure function that ends by raising (an
\* Error from the body, an argument-count mismatch, or a Break or Continue
\* that leaves the call) stores nothing in the memo cache, and the next call
\* with the same arguments is not answered from the cache: it runs the
\* closure again, which prints 5 again where the body is reached and raises
\* again.
RaisingCallsAreNotCached ==
  (scenario.family = "raising" /\ (scenario.sig # "" \/ scenario.n # 1)) =>
    /\ status # "hung"
    /\ \A i \in 1..Len(st.closures) : st.closures[i].cache = <<>>
    /\ pc = 3 => Console = RaisingCallLines
    /\ pc = 4 => Console = RaisingCallLines \o RaisingCallLines
    /\ pc = 5 => Console = RaisingCallLines \o RaisingCallLines \o Lines(<<70>>)
    /\ status # "threw"

RaisingCallsAreNotCached_witness ==
  /\ scenario.family = "raising"
  /\ scenario.sig = "BreakSignal" /\ scenario.n = 1 /\ scenario.a1 = 11
  /\ status = "returned"
  /\ Console = Lines(<<5, 40, 5, 40, 70>>)
  /\ st.closures[1].cache = <<>>

---------------------------------------------------------------------------
(* The condition of a DoWhile *)

\* What the run of family "condition" does when the DoWhile makes as many
\* passes as `passes` and then ends as `end`: "normal" (the loop is left and
\* the run goes on), "threw" (sig leaves the loop) or "hung" (no end).
ConditionRun(passes, end) ==
  /\ pc = 3 => \/ status = "running" /\ Console = <<>>
               \/ /\ status = end
                  /\ Console = Counting(1, passes)
                  /\ end = "threw" => thrown.k = scenario.sig
  /\ pc > 3 => /\ end = "normal"
               /\ ~Failed
               /\ Console = Counting(1, passes)
                            \o (IF pc > 4 THEN Lines(<<scenario.n>>) ELSE <<>>)
                            \o (IF pc > 5 THEN Lines(<<70>>) ELSE <<>>)

\* The DoWhile of the scenario ends only through what its body raises in
\* pass scenario.at, and not at all when that is nothing or a Continue.
EndsThroughTheBodyOnly ==
  CASE scenario.sig \in {"BreakSignal", "flag"} -> ConditionRun(scenario.at, "normal")
    [] scenario.sig \in {"ReturnSignal", "Error"} -> ConditionRun(scenario.at, "threw")
    [] OTHER -> ConditionRun(MaxIter, "hung")

\* The DoWhile of the scenario ends with its first pass: through what the
\* body raises in it, or else through the condition.
EndsWithTheFirstPass ==
  IF scenario.at = 1 /\ scenario.sig \in {"ReturnSignal", "Error"}
  THEN ConditionRun(1, "threw")
  ELSE ConditionRun(1, "normal")

\* C28 as stated: the declarations and assignments in the body of a DoWhile
\* never change the x that the condition reads, the condition has the same
\* value after every pass, and the loop ends only through Break, the break
\* flag, Return or an Error.
DoWhileEndsOnlyThroughTheBody ==
  (scenario.family = "condition" /\ pc >= 3) =>
    /\ st.frames[Root].variables["x"] = Num(scenario.n)
    /\ EndsThroughTheBodyOnly

\* C28: the declarations and assignments in the body of a DoWhile never
\* change the x that the condition reads, in the enclosing context, and the
\* condition has the same value after every pass.  When that value is true
\* the loop ends only through Break, the break flag, Return or an Error;
\* when it is false the loop ends with its first pass.
DoWhileConditionKeepsItsValue ==
  (scenario.family = "condition" /\ pc >= 3) =>
    /\ st.frames[Root].variables["x"] = Num(scenario.n)
    /\ IF scenario.n < 3 THEN EndsThroughTheBodyOnly ELSE EndsWithTheFirstPass

DoWhileConditionKeepsItsValue_witness ==
  /\ scenario.family = "condition"
  /\ scenario.kind = "AssignmentNode" /\ scenario.kinds = <<>>
  /\ scenario.n = 0 /\ scenario.sig = "BreakSignal" /\ scenario.at = 2
  /\ status = "returned"
  /\ Console = Lines(<<1, 2, 0, 70>>)

===========================================================================
